---- MODULE Spec2Model ----
(***************************************************************************)
(* Model of the document corpus of excellor-ai: the vector database        *)
(* (generateEmbedding, storeDocument, getAllDocuments, deleteDocument,     *)
(* searchSimilarChunks, fallbackTextSearch, clearAllDocuments) and the     *)
(* document processor that feeds it.                                       *)
(*                                                                         *)
(* Representation of values:                                               *)
(*   - a text is a sequence of UTF-16 code units;                          *)
(*   - a number[] is a record [len, nz, den2]: len is the array's length,  *)
(*     nz maps the indices holding a non-zero entry to an integer and the  *)
(*     entry at index i is nz[i] / sqrt(den2).  Cosine similarity does not *)
(*     depend on den2, so it is computed exactly over the integers;        *)
(*   - a similarity is a record [num, den2] standing for num / sqrt(den2); *)
(*     the comparisons the code makes on doubles are made on these exact   *)
(*     values.                                                             *)
(***************************************************************************)
EXTENDS Integers, Sequences, FiniteSets, TLC

\* text-embedding-3-large has 3072 dimensions
EMBEDDING_DIMENSIONS == 3072

\* largest value of a 32-bit signed integer (hash & hash converts to one)
INT32_MAX == 2147483647

INT32_MIN == (-INT32_MAX) - 1

Abs(x) == IF x < 0 THEN -x ELSE x

Range(s) == {s[i] : i \in DOMAIN s}

RECURSIVE SumOver(_, _)
SumOver(S, f) ==
    IF S = {} THEN 0
    ELSE LET x == CHOOSE y \in S : TRUE IN f[x] + SumOver(S \ {x}, f)

(***************************************************************************)
(* 32-bit integer arithmetic of simpleHash                                  *)
(***************************************************************************)

\* a + b reduced to a 32-bit signed integer, for 32-bit a and b
WrapAdd(a, b) ==
    IF a >= 0 /\ b > INT32_MAX - a
    THEN (a - INT32_MAX - 1) + (b - INT32_MAX - 1)
    ELSE IF a < 0 /\ b < INT32_MIN - a
    THEN (a + INT32_MAX + 1) + (b + INT32_MAX + 1)
    ELSE a + b

\* a - b reduced to a 32-bit signed integer
WrapSub(a, b) ==
    IF b = INT32_MIN THEN WrapAdd(WrapAdd(a, INT32_MAX), 1) ELSE WrapAdd(a, -b)

\* hash << 5 on a 32-bit signed integer: bit 26 becomes the sign bit
Shl5(h) ==
    LET lo  == h % 67108864
        top == (h \div 67108864) % 2
    IN  IF top = 1 THEN (lo * 32 - INT32_MAX) - 1 ELSE lo * 32

\* the loop of simpleHash: hash = ((hash << 5) - hash) + char; hash = hash & hash
RECURSIVE HashLoop(_, _, _)
HashLoop(str, i, hash) ==
    IF i > Len(str) THEN hash
    ELSE HashLoop(str, i + 1, WrapAdd(WrapSub(Shl5(hash), hash), str[i]))

\* simpleHash(str) % m, where simpleHash returns Math.abs of the 32-bit hash
\* (Math.abs(-2^31) is 2^31, which is INT32_MAX + 1)
simpleHashMod(str, m) ==
    LET hash == HashLoop(str, 1, 0)
    IN  IF hash = INT32_MIN THEN ((INT32_MAX % m) + 1) % m ELSE Abs(hash) % m

(***************************************************************************)
(* Texts                                                                   *)
(***************************************************************************)

IsSpace(c) == c \in {9, 10, 11, 12, 13, 32}

\* String.prototype.toLowerCase on the code units used here (A-Z)
LowerChar(c) == IF c >= 65 /\ c <= 90 THEN c + 32 ELSE c

toLowerCase(text) == [i \in 1..Len(text) |-> LowerChar(text[i])]

\* text.split(/\s+/): the pieces between maximal runs of white space; a text
\* that starts (ends) with white space yields an empty first (last) piece
RECURSIVE SplitFrom(_, _, _, _)
SplitFrom(text, i, cur, acc) ==
    IF i > Len(text) THEN Append(acc, cur)
    ELSE IF IsSpace(text[i])
    THEN IF i > 1 /\ IsSpace(text[i - 1])
         THEN SplitFrom(text, i + 1, cur, acc)
         ELSE SplitFrom(text, i + 1, <<>>, Append(acc, cur))
    ELSE SplitFrom(text, i + 1, Append(cur, text[i]), acc)

splitWhitespace(text) == SplitFrom(text, 1, <<>>, <<>>)

(***************************************************************************)
(* chunkText                                                               *)
(***************************************************************************)

\* the characters of the class [.!?]
IsTerminator(c) == c \in {46, 33, 63}

\* text.split(/[.!?]+/): the pieces between maximal runs of . ! ?
RECURSIVE SplitSentences(_, _, _, _)
SplitSentences(text, i, cur, acc) ==
    IF i > Len(text) THEN Append(acc, cur)
    ELSE IF IsTerminator(text[i])
    THEN IF i > 1 /\ IsTerminator(text[i - 1])
         THEN SplitSentences(text, i + 1, cur, acc)
         ELSE SplitSentences(text, i + 1, <<>>, Append(acc, cur))
    ELSE SplitSentences(text, i + 1, Append(cur, text[i]), acc)

\* String.prototype.trim
RECURSIVE trimStart(_)
trimStart(str) ==
    IF Len(str) > 0 /\ IsSpace(str[1]) THEN trimStart(Tail(str)) ELSE str

RECURSIVE trimEnd(_)
trimEnd(str) ==
    IF Len(str) > 0 /\ IsSpace(str[Len(str)])
    THEN trimEnd(SubSeq(str, 1, Len(str) - 1)) ELSE str

trim(str) == trimEnd(trimStart(str))

\* currentChunk.split(' '): the pieces between single spaces (two spaces in
\* a row enclose an empty piece)
RECURSIVE SplitSpaces(_, _, _, _)
SplitSpaces(str, i, cur, acc) ==
    IF i > Len(str) THEN Append(acc, cur)
    ELSE IF str[i] = 32 THEN SplitSpaces(str, i + 1, <<>>, Append(acc, cur))
    ELSE SplitSpaces(str, i + 1, Append(cur, str[i]), acc)

\* words.join(' ')
RECURSIVE JoinSpaces(_)
JoinSpaces(words) ==
    IF Len(words) = 0 THEN <<>>
    ELSE IF Len(words) = 1 THEN words[1]
    ELSE words[1] \o <<32>> \o JoinSpaces(Tail(words))

\* words.slice(-Math.min(overlap / 5, words.length / 2)) for overlap >= 0:
\* slice truncates its argument towards zero, and slice(-0) is slice(0), the
\* whole array
OverlapWords(words, overlap) ==
    LET a == overlap \div 5
        h == Len(words) \div 2
        k == IF a < h THEN a ELSE h
    IN  IF k = 0 THEN words ELSE SubSeq(words, Len(words) - k + 1, Len(words))

\* the for loop of chunkText over sentences[i..]: [currentChunk, chunks]
RECURSIVE ChunkLoop(_, _, _, _, _, _)
ChunkLoop(sentences, i, currentChunk, chunks, maxChunkSize, overlap) ==
    IF i > Len(sentences)
    THEN [currentChunk |-> currentChunk, chunks |-> chunks]
    ELSE
    LET trimmedSentence == trim(sentences[i])
        proposedChunk ==
            currentChunk \o (IF Len(currentChunk) > 0 THEN <<46, 32>> ELSE <<>>)
                         \o trimmedSentence
        overlapWords == OverlapWords(SplitSpaces(currentChunk, 1, <<>>, <<>>), overlap)
    IN  IF Len(trimmedSentence) = 0
        THEN ChunkLoop(sentences, i + 1, currentChunk, chunks, maxChunkSize, overlap)
        ELSE IF Len(proposedChunk) <= maxChunkSize
        THEN ChunkLoop(sentences, i + 1, proposedChunk, chunks, maxChunkSize, overlap)
        ELSE IF Len(currentChunk) > 0
        THEN ChunkLoop(sentences, i + 1,
                       JoinSpaces(overlapWords)
                           \o (IF Len(overlapWords) > 0 THEN <<46, 32>> ELSE <<>>)
                           \o trimmedSentence,
                       Append(chunks, currentChunk \o <<46>>),
                       maxChunkSize, overlap)
        ELSE ChunkLoop(sentences, i + 1, trimmedSentence, chunks, maxChunkSize, overlap)

\* chunk.trim().length >= 10
AtLeastTen(chunk) == Len(trim(chunk)) >= 10

\* chunk.trim().length > 10
NotVeryShort(chunk) == Len(trim(chunk)) > 10

\* text.split(/[.!?]+/).filter(s => s.trim().length > 0)
Sentences(text) ==
    LET NotBlank(sentence) == Len(trim(sentence)) > 0
    IN  SelectSeq(SplitSentences(text, 1, <<>>, <<>>), NotBlank)

chunkText(text, maxChunkSize, overlap) ==
    LET loop   == ChunkLoop(Sentences(text), 1, <<>>, <<>>, maxChunkSize, overlap)
        chunks == IF Len(loop.currentChunk) > 0
                  THEN Append(loop.chunks, loop.currentChunk \o <<46>>)
                  ELSE loop.chunks
    IN  SelectSeq(chunks, NotVeryShort)

(***************************************************************************)
(* Files: validateFile and getFileType                                     *)
(***************************************************************************)

\* const maxSize = 10 * 1024 * 1024
maxSize == 10 * 1024 * 1024

MimePdf == "application/pdf"

MimeDocx == "application/vnd.openxmlformats-officedocument.wordprocessingml.document"

MimeTxt == "text/plain"

supportedTypes == {MimePdf, MimeDocx, MimeTxt}

\* 'pdf', 'docx' and 'txt' as code units
ExtPdf == <<112, 100, 102>>

ExtDocx == <<100, 111, 99, 120>>

ExtTxt == <<116, 120, 116>>

\* file.name.toLowerCase().split('.').pop(): what follows the last dot, the
\* whole name when it has none
Extension(name) ==
    LET lower == toLowerCase(name)
        dots  == {i \in DOMAIN lower : lower[i] = 46}
        last  == CHOOSE i \in dots : \A j \in dots : j <= i
    IN  IF dots = {} THEN lower ELSE SubSeq(lower, last + 1, Len(lower))

\* validateFile without the check of file.size
validateFileAnySize(file) ==
    IF ~(file.type \in supportedTypes
           \/ Extension(file.name) \in {ExtPdf, ExtDocx, ExtTxt})
    THEN [valid |-> FALSE, error |-> "Supported formats: PDF, DOCX, TXT"]
    ELSE [valid |-> TRUE, error |-> ""]

validateFile(file) ==
    IF file.size > maxSize
    THEN [valid |-> FALSE, error |-> "File size must be less than 10MB"]
    ELSE IF ~(file.type \in supportedTypes
                \/ Extension(file.name) \in {ExtPdf, ExtDocx, ExtTxt})
    THEN [valid |-> FALSE, error |-> "Supported formats: PDF, DOCX, TXT"]
    ELSE [valid |-> TRUE, error |-> ""]

\* getFileType comparing the extension as it is written in the name
getFileTypeCaseSensitive(file) ==
    LET dots == {i \in DOMAIN file.name : file.name[i] = 46}
        last == CHOOSE i \in dots : \A j \in dots : j <= i
        extension == IF dots = {} THEN file.name
                     ELSE SubSeq(file.name, last + 1, Len(file.name))
    IN
    IF file.type = MimePdf THEN [threw |-> FALSE, value |-> "pdf"]
    ELSE IF file.type = MimeDocx THEN [threw |-> FALSE, value |-> "docx"]
    ELSE IF file.type = MimeTxt THEN [threw |-> FALSE, value |-> "txt"]
    ELSE IF extension = ExtPdf THEN [threw |-> FALSE, value |-> "pdf"]
    ELSE IF extension = ExtDocx THEN [threw |-> FALSE, value |-> "docx"]
    ELSE IF extension = ExtTxt THEN [threw |-> FALSE, value |-> "txt"]
    ELSE [threw |-> TRUE, value |-> ""]

\* getFileType: [threw, value]
getFileType(file) ==
    LET extension == Extension(file.name) IN
    IF file.type = MimePdf THEN [threw |-> FALSE, value |-> "pdf"]
    ELSE IF file.type = MimeDocx THEN [threw |-> FALSE, value |-> "docx"]
    ELSE IF file.type = MimeTxt THEN [threw |-> FALSE, value |-> "txt"]
    ELSE IF extension = ExtPdf THEN [threw |-> FALSE, value |-> "pdf"]
    ELSE IF extension = ExtDocx THEN [threw |-> FALSE, value |-> "docx"]
    ELSE IF extension = ExtTxt THEN [threw |-> FALSE, value |-> "txt"]
    ELSE [threw |-> TRUE, value |-> ""]

(***************************************************************************)
(* extractTextFromPDF                                                      *)
(***************************************************************************)

\* "[Error extracting text from this page]"
ErrorPlaceholder ==
    <<91, 69, 114, 114, 111, 114, 32, 101, 120, 116, 114, 97, 99, 116, 105,
    110, 103, 32, 116, 101, 120, 116, 32, 102, 114, 111, 109, 32, 116, 104,
    105, 115, 32, 112, 97, 103, 101, 93>>

\* `${i}` for an integer i >= 0
RECURSIVE ToDigits(_)
ToDigits(i) ==
    IF i < 10 THEN <<48 + i>> ELSE ToDigits(i \div 10) \o <<48 + (i % 10)>>

\* for (const item of textContent.items) pageText += item.str + ' '
RECURSIVE ItemsText(_)
ItemsText(items) ==
    IF Len(items) = 0 THEN <<>>
    ELSE items[1] \o <<32>> \o ItemsText(Tail(items))

\* str.replace(/\s+/g, ' '): every run of white space becomes one space
RECURSIVE CollapseSpaces(_)
CollapseSpaces(str) ==
    IF Len(str) = 0 THEN <<>>
    ELSE IF IsSpace(str[1])
    THEN IF Len(str) > 1 /\ IsSpace(str[2]) THEN CollapseSpaces(Tail(str))
         ELSE <<32>> \o CollapseSpaces(Tail(str))
    ELSE <<str[1]>> \o CollapseSpaces(Tail(str))

\* pageText of a page whose text content has these items
PageText(items) == trim(CollapseSpaces(ItemsText(items)))

\* `[Page ${i}]`
PageLabel(i) == <<91, 80, 97, 103, 101, 32>> \o ToDigits(i) \o <<93>>

\* `\n[Page ${i}]\n${body}\n`
PageSection(i, body) == <<10>> \o PageLabel(i) \o <<10>> \o body \o <<10>>

(***************************************************************************)
(* Vectors                                                                 *)
(***************************************************************************)

\* new Array(n).fill(0); entries are counted in tenths (den2 = 100)
ZeroVector(n) == [len |-> n, nz |-> <<>>, den2 |-> 100]

\* vector[i] += x on a JavaScript array: an index at or past the length
\* extends the array
VecAdd(v, i, x) ==
    [v EXCEPT !.len = IF i >= v.len THEN i + 1 ELSE v.len,
              !.nz  = IF i \in DOMAIN v.nz
                      THEN [v.nz EXCEPT ![i] = @ + x]
                      ELSE [j \in DOMAIN v.nz \cup {i} |->
                              IF j = i THEN x ELSE v.nz[j]]]

SumSq(v) == SumOver(DOMAIN v.nz, [i \in DOMAIN v.nz |-> v.nz[i] * v.nz[i]])

Dot(a, b) ==
    LET I == DOMAIN a.nz \cap DOMAIN b.nz
    IN  SumOver(I, [i \in I |-> a.nz[i] * b.nz[i]])

\* for (words) vector[hash % EMBEDDING_DIMENSIONS] += 1
RECURSIVE AddWords(_, _, _)
AddWords(v, words, i) ==
    IF i > Len(words) THEN v
    ELSE AddWords(VecAdd(v, simpleHashMod(words[i], EMBEDDING_DIMENSIONS), 10),
                  words, i + 1)

\* for (chars) vector[(charCode * 17) % EMBEDDING_DIMENSIONS] += 0.1
RECURSIVE AddChars(_, _, _)
AddChars(v, text, i) ==
    IF i > Len(text) THEN v
    ELSE AddChars(VecAdd(v, (text[i] * 17) % EMBEDDING_DIMENSIONS, 1),
                  text, i + 1)

\* magnitude > 0 ? vector.map(val => val / magnitude) : vector
Normalize(v) == IF SumSq(v) > 0 THEN [v EXCEPT !.den2 = SumSq(v)] ELSE v

generateSimpleVector(text) ==
    Normalize(AddChars(AddWords(ZeroVector(EMBEDDING_DIMENSIONS),
                                splitWhitespace(toLowerCase(text)), 1),
                       text, 1))

(***************************************************************************)
(* Similarities                                                            *)
(***************************************************************************)

\* a / b compared with c / d (a, c >= 0 and b, d > 0): -1, 0 or 1, computed by
\* the continued-fraction expansion so that no product is ever formed
RECURSIVE FracCmp(_, _, _, _)
FracCmp(a, b, c, d) ==
    LET qa == a \div b
        qc == c \div d
        ra == a % b
        rc == c % d
    IN  IF qa < qc THEN -1
        ELSE IF qa > qc THEN 1
        ELSE IF ra = 0 /\ rc = 0 THEN 0
        ELSE IF ra = 0 THEN -1
        ELSE IF rc = 0 THEN 1
        ELSE FracCmp(d, rc, b, ra)

\* the sign of s - t for two similarities
SimCmp(s, t) ==
    IF s.num >= 0 /\ t.num >= 0
    THEN FracCmp(s.num * s.num, s.den2, t.num * t.num, t.den2)
    ELSE IF s.num < 0 /\ t.num < 0
    THEN FracCmp(t.num * t.num, t.den2, s.num * s.num, s.den2)
    ELSE IF s.num < 0 THEN -1 ELSE 1

ZeroSim == [num |-> 0, den2 |-> 1]

\* marks the similarity field a lexical match does not have
NoSim == [num |-> 0, den2 |-> 0]

cosineSimilarity(a, b) ==
    IF a.len # b.len THEN ZeroSim
    ELSE LET magnitudeA2 == SumSq(a)
             magnitudeB2 == SumSq(b)
         IN  IF magnitudeA2 = 0 \/ magnitudeB2 = 0 THEN ZeroSim
             ELSE [num |-> Dot(a, b), den2 |-> magnitudeA2 * magnitudeB2]

(***************************************************************************)
(* Array.prototype.sort (stable) on the indices 1..n of an array, given    *)
(* the comparator's sign c[i][j] for the elements at i and j               *)
(***************************************************************************)

SetMin(S) == CHOOSE x \in S : \A y \in S : x <= y

InsertSorted(s, x, c) ==
    LET later == {k \in 1..Len(s) : c[s[k]][x] > 0}
        p     == IF later = {} THEN Len(s) + 1 ELSE SetMin(later)
    IN  SubSeq(s, 1, p - 1) \o <<x>> \o SubSeq(s, p, Len(s))

RECURSIVE SortFrom(_, _, _, _)
SortFrom(s, i, n, c) ==
    IF i > n THEN s ELSE SortFrom(InsertSorted(s, i, c), i + 1, n, c)

SortIndices(n, c) == SortFrom(<<>>, 1, n, c)

\* array.slice(0, k) for an integer k >= 0
Slice(s, k) == SubSeq(s, 1, IF k < Len(s) THEN k ELSE Len(s))

\* the keys of a store in the order iterate() visits them (ascending key)
RECURSIVE KeysInOrder(_)
KeysInOrder(K) ==
    IF K = {} THEN <<>>
    ELSE LET k == SetMin(K) IN <<k>> \o KeysInOrder(K \ {k})

(***************************************************************************)
(* Inputs: texts, files, the answers of the remote embedding service       *)
(***************************************************************************)

\* "Red apples."
TextApples == <<82, 101, 100, 32, 97, 112, 112, 108, 101, 115, 46>>

\* "Blue skies."
TextSkies == <<66, 108, 117, 101, 32, 115, 107, 105, 101, 115, 46>>

\* "Constitution."
TextConstitution ==
    <<67, 111, 110, 115, 116, 105, 116, 117, 116, 105, 111, 110, 46>>

\* the files a user uploads: name, format and the chunk texts that text
\* extraction and chunkText yield for the file's content
Files ==
    { [name |-> "notes.txt", type |-> "txt",
       texts |-> <<TextApples, TextSkies>>],
      [name |-> "polity.pdf", type |-> "pdf",
       texts |-> <<TextConstitution>>],
      [name |-> "empty.txt", type |-> "txt", texts |-> <<>>] }

Queries == {TextApples, TextConstitution}

\* the files of a batch upload, with the text their extraction yields:
\* a.txt; B.PDF without a MIME type; c.exe; d.txt above 10MB; e.docx of
\* exactly 10MB holding "Hi."; notes, a text/plain file without extension
UploadFiles ==
    { [name |-> <<97, 46, 116, 120, 116>>, type |-> MimeTxt, size |-> 11,
       content |-> TextApples],
      [name |-> <<66, 46, 80, 68, 70>>, type |-> "", size |-> 2048,
       content |-> TextConstitution],
      [name |-> <<99, 46, 101, 120, 101>>, type |-> "application/octet-stream",
       size |-> 2048, content |-> TextSkies],
      [name |-> <<100, 46, 116, 120, 116>>, type |-> MimeTxt,
       size |-> maxSize + 1, content |-> TextSkies],
      [name |-> <<101, 46, 100, 111, 99, 120>>, type |-> MimeDocx,
       size |-> maxSize, content |-> <<72, 105, 46>>],
      [name |-> <<110, 111, 116, 101, 115>>, type |-> MimeTxt, size |-> 11,
       content |-> TextApples] }

\* the pieces the texts handed to chunkText are put together from:
\* "aaaaaaaa", "bb cc dd", "e", ". ", "?!" and " "
ChunkTokens ==
    { <<97, 97, 97, 97, 97, 97, 97, 97>>, <<98, 98, 32, 99, 99, 32, 100, 100>>,
      <<101>>, <<46, 32>>, <<63, 33>>, <<32>> }

\* largest number of pieces in a text
MaxTokens == 4

RECURSIVE Concat(_)
Concat(pieces) ==
    IF Len(pieces) = 0 THEN <<>> ELSE Head(pieces) \o Concat(Tail(pieces))

ChunkTexts ==
    UNION { {Concat(pieces) : pieces \in [1..n -> ChunkTokens]} : n \in 0..MaxTokens }

\* the maxChunkSize and overlap chunkText is called with; 1000 and 100 are
\* the defaults
ChunkSizes == {12, 20, 1000}

Overlaps == {0, 5, 10, 100}

\* the texts generateEmbedding is called with on its own: the above, the
\* empty text, white space only, "A", " a  B " and "xyz 123"
EmbedTexts ==
    { TextApples, TextSkies, TextConstitution, <<>>, <<32>>, <<10, 9>>, <<65>>,
      <<97>>, <<32, 97, 32, 32, 66, 32>>, <<120, 121, 122, 32, 49, 50, 51>>,
      <<97, 32, 97>> }

\* a threshold p / q is written as the similarity p / sqrt(q * q)
Thresholds ==
    { [num |-> 3, den2 |-> 100], [num |-> 3, den2 |-> 25] }

\* the value of a property that is not there
Undefined == [len |-> -1, nz |-> <<>>, den2 |-> 0]

\* the vector the deployed model computes for a text: the service is a
\* function of its input
ModelVector(text) ==
    [len  |-> EMBEDDING_DIMENSIONS,
     nz   |-> IF text = TextApples THEN (0 :> 1)
              ELSE IF text = TextSkies THEN (0 :> 3 @@ 1 :> 4)
              ELSE (1 :> 1),
     den2 |-> 1]

\* the same vector cut or padded to n entries (another deployment's size)
Resized(v, n) ==
    [v EXCEPT !.len = n,
              !.nz  = [i \in {j \in DOMAIN v.nz : j < n} |-> v.nz[i]]]

\* what the call to the embedding endpoint can come to for a text:
\* fetch rejects; a non-OK status; a body that is no JSON; a body without
\* data[0].embedding; an embedding that is no array; an array of another
\* length; the array of EMBEDDING_DIMENSIONS numbers
Responses(text) ==
    { [kind |-> k, embedding |-> Undefined] :
        k \in {"networkError", "notOk", "invalidJson", "noEmbedding", "notArray"} }
    \cup
    { [kind |-> "embedding", embedding |-> Resized(ModelVector(text), n)] :
        n \in {0, 1536, EMBEDDING_DIMENSIONS - 1, EMBEDDING_DIMENSIONS,
               EMBEDDING_DIMENSIONS + 1} }

\* the answers drawn while a document is stored or a query is searched: a
\* failed call, an array of another length, the array of the right length
CorpusResponses(text) ==
    {r \in Responses(text) :
        \/ r.kind = "networkError"
        \/ r.kind = "embedding" /\ r.embedding.len \in {1536, EMBEDDING_DIMENSIONS}}

\* no response (no request was made)
NoResponse == [kind |-> "none", embedding |-> Undefined]

(***************************************************************************)
(* generateEmbedding                                                       *)
(***************************************************************************)

\* generateSimpleVector of the texts above, evaluated once
SimpleVectorTable == [text \in EmbedTexts |-> generateSimpleVector(text)]

SimpleVector(text) ==
    IF text \in EmbedTexts THEN SimpleVectorTable[text] ELSE generateSimpleVector(text)

\* the try block without the check of embedding.length
EmbeddingAttemptUnchecked(text, key, resp) ==
    IF ~key THEN [threw |-> FALSE, value |-> SimpleVector(text)]
    ELSE IF resp.kind \in {"networkError", "notOk", "invalidJson", "noEmbedding"}
    THEN [threw |-> TRUE, value |-> Undefined]
    ELSE IF resp.kind = "notArray"
    THEN [threw |-> TRUE, value |-> Undefined]
    ELSE [threw |-> FALSE, value |-> resp.embedding]

\* the body of the try block: [threw, value]
EmbeddingAttempt(text, key, resp) ==
    IF ~key THEN [threw |-> FALSE, value |-> SimpleVector(text)]
    ELSE IF resp.kind \in {"networkError", "notOk", "invalidJson", "noEmbedding"}
    THEN [threw |-> TRUE, value |-> Undefined]
    ELSE IF resp.kind = "notArray" \/ resp.embedding.len # EMBEDDING_DIMENSIONS
    THEN [threw |-> TRUE, value |-> Undefined]
    ELSE [threw |-> FALSE, value |-> resp.embedding]

\* generateEmbedding with the catch block left out
generateEmbeddingNoCatch(text, key, resp) ==
    LET attempt == EmbeddingAttempt(text, key, resp)
    IN  [raised |-> attempt.threw, value |-> attempt.value]

\* try { ... } catch { return generateSimpleVector(text) }: [raised, value]
generateEmbedding(text, key, resp) ==
    LET attempt == EmbeddingAttempt(text, key, resp)
    IN  IF attempt.threw
        THEN [raised |-> FALSE, value |-> SimpleVector(text)]
        ELSE [raised |-> FALSE, value |-> attempt.value]

(***************************************************************************)
(* State                                                                   *)
(***************************************************************************)

\* number of document ids (uuidv4) that can be issued
MaxDocIds == 2

\* number of chunk ids (uuidv4) that can be issued
MaxChunkIds == 2

\* largest topK a search is called with
MaxTopK == 2

DocIds == 1..MaxDocIds

ChunkIds == 1..MaxChunkIds

\* the asynchronous tasks that run corpus operations: the one that calls the
\* operations in turn, and a second one that reads the corpus meanwhile
Tasks == {"main", "reader"}

VARIABLES
    apiKey,        \* AZURE_OPENAI_API_KEY is set
    initialized,   \* the handles documentsDB and embeddingsDB are constructed
    documentsDB,   \* store excellor-documents: document id -> document
    embeddingsDB,  \* store excellor-embeddings: chunk id -> embedding record
    issued,        \* the uuids handed out so far: [docs, chunks]
    now,           \* the clock new Date() reads
    tasks,         \* per task: the operation it runs, its position and locals
    deleted,       \* history: the chunk ids of the documents that
                   \* deleteDocument has removed
    upload,        \* handleFileUpload: the files, the loop index, the position
                   \* and, per file attempted, what processFile came to
    created,       \* per handle, how often createInstance has constructed it
    page,          \* the chat page: its documents list, the RAG switch, the
                   \* message being sent and, as history, the documents its
                   \* delete button took off the list
    pdf,           \* extractTextFromPDF: the pages, the loop index, fullText
    relay          \* POST: the upstream body, what was read, what was enqueued

vars ==
    <<apiKey, initialized, documentsDB, embeddingsDB, issued, now, tasks, deleted,
      upload, created, page, pdf, relay>>

\* getItem's null
NoDocument ==
    [id |-> 0, name |-> "", type |-> "", chunks |-> <<>>, createdAt |-> 0]

\* the locals of an operation, and its history: caught (the catch block of
\* searchSimilarChunks ran), lexical (fallbackTextSearch was entered), matches
\* (what fuse.search answered), failed (a call on a store rejected)
IdleTask ==
    [pc |-> "idle", op |-> "none", doc |-> NoDocument, emb |-> <<>>, idx |-> 0,
     query |-> <<>>, topK |-> 0, threshold |-> ZeroSim, qvec |-> Undefined,
     resp |-> NoResponse, raised |-> FALSE, ret |-> <<>>,
     maxChunkSize |-> 0, overlap |-> 0,
     sortedChunks |-> <<>>, caught |-> FALSE, lexical |-> FALSE, matches |-> <<>>,
     failed |-> FALSE]

\* no batch is being uploaded
IdleUpload == [pc |-> "idle", files |-> <<>>, i |-> 0, log |-> <<>>]

\* let documentsDB = null, embeddingsDB = null
NeverCreated == [documentsDB |-> 0, embeddingsDB |-> 0]

\* the page's useState values: documents [], ragEnabled true; no context
\* has been found, and the delete button has not been used
InitialPage ==
    [documents |-> <<>>, ragEnabled |-> TRUE, ragContext |-> <<>>, removed |-> {}]

\* no PDF is being read
IdlePdf ==
    [pc |-> "idle", numPages |-> 0, i |-> 0, fullText |-> <<>>, visited |-> <<>>,
     failed |-> {}]

\* no request is being relayed: upstream is how the upstream call came out
\* ("none", "failed", "noBody", "body"), body what is left to read of the
\* upstream stream, read what reader.read() has handed over, enqueued what
\* was enqueued to the caller's stream, doneSeen that read() has reported
\* done, state the caller's stream ("none", "open", "closed", "errored")
IdleRelay ==
    [pc |-> "idle", upstream |-> "none", body |-> <<>>, read |-> <<>>,
     enqueued |-> <<>>, doneSeen |-> FALSE, state |-> "none"]

Init ==
    /\ apiKey \in BOOLEAN
    /\ initialized = FALSE
    /\ documentsDB = [d \in {} |-> NoDocument]
    /\ embeddingsDB = [c \in {} |-> NoDocument]
    /\ issued = [docs |-> {}, chunks |-> {}]
    /\ now = 0
    /\ tasks = [t \in Tasks |-> IdleTask]
    /\ deleted = {}
    /\ upload = IdleUpload
    /\ created = NeverCreated
    /\ page = InitialPage
    /\ pdf = IdlePdf
    /\ relay = IdleRelay

\* removeItem that removes nothing
RemoveItemKept(db, key) == db

\* clear() that clears nothing
ClearedNothing(db) == db

\* localforage setItem / removeItem / clear on a store
SetItem(db, key, value) ==
    [k \in DOMAIN db \cup {key} |-> IF k = key THEN value ELSE db[k]]

RemoveItem(db, key) == [k \in DOMAIN db \ {key} |-> db[k]]

Cleared(db) == [k \in {} |-> db[k]]

\* getItem: the stored value, or null
GetItem(db, key) == IF key \in DOMAIN db THEN db[key] ELSE NoDocument

\* iterate(): the stored values in key order
Iterate(db) == LET keys == KeysInOrder(DOMAIN db) IN [i \in DOMAIN keys |-> db[keys[i]]]

\* localForage.createInstance(...) for documentsDB and for embeddingsDB
CreateInstances(c) ==
    [documentsDB |-> c.documentsDB + 1, embeddingsDB |-> c.embeddingsDB + 1]

\* await initializeDatabases(), nothing else running meanwhile: constructs
\* both handles when either is null
initializeDatabases ==
    /\ initialized' = TRUE
    /\ created' = IF initialized THEN created ELSE CreateInstances(created)

\* initializeDatabases in an operation whose await rejects: it is the import
\* that rejected (no handle is constructed) or a later call on a store
initializeDatabasesOrThrow ==
    \/ initializeDatabases
    \/ UNCHANGED <<initialized, created>>

Goto(t, rec) == tasks' = [tasks EXCEPT ![t] = rec]

(***************************************************************************)
(* processDocument and storeDocument                                       *)
(***************************************************************************)

\* the ProcessedDocument processDocument returns for file f, with fresh
\* uuids id (document) and cids (chunks) and the creation time
NewDocument(f, id, cids, time) ==
    [id |-> id, name |-> f.name, type |-> f.type,
     chunks |-> [i \in DOMAIN f.texts |->
                   [id |-> cids[i], content |-> f.texts[i],
                    metadata |-> [source |-> f.name, chunkIndex |-> i - 1,
                                  type |-> f.type],
                    embedding |-> Undefined]],
     createdAt |-> time]

\* sequences of n distinct elements of S
Injections(n, S) ==
    {s \in [1..n -> S] : \A i, j \in 1..n : i # j => s[i] # s[j]}

\* processDocument(file) followed by the call storeDocument(processedDoc):
\* the embedding calls of all chunks are started.  uuidv4 never repeats an
\* id.  A chunk id is any unused id, so that the key order of embeddingsDB is
\* independent of the order of insertion; a document id is the next unused
\* one, since the key order of documentsDB reaches no result (getAllDocuments
\* sorts by createdAt, and the clock has advanced between two documents).
ProcessDocument(t, f, id, cids) ==
    /\ tasks[t].pc = "idle"
    /\ DocIds \ issued.docs # {}
    /\ id = SetMin(DocIds \ issued.docs)
    /\ cids \in Injections(Len(f.texts), ChunkIds \ issued.chunks)
    /\ issued' = [docs |-> issued.docs \cup {id},
                  chunks |-> issued.chunks \cup Range(cids)]
    /\ now' = now + 1
    /\ initializeDatabases
    /\ Goto(t, [IdleTask EXCEPT !.pc = "embed", !.op = "store",
                                !.doc = NewDocument(f, id, cids, now + 1)])
    /\ UNCHANGED <<page, pdf, relay, apiKey, upload, documentsDB, embeddingsDB, deleted>>

\* the call made for chunk i embedding the content of the chunk at the other
\* end of the array
StoreEmbedOfAnotherChunk(t, i, resp) ==
    LET self == tasks[t]
        j == Len(self.doc.chunks) + 1 - i
        embedding == generateEmbedding(self.doc.chunks[j].content, apiKey, resp)
    IN
    /\ self.pc = "embed"
    /\ i \in DOMAIN self.doc.chunks \ DOMAIN self.emb
    /\ resp \in CorpusResponses(self.doc.chunks[i].content)
    /\ Goto(t, IF embedding.raised
               THEN [self EXCEPT !.pc = "done", !.raised = TRUE]
               ELSE [self EXCEPT !.emb =
                       [k \in DOMAIN self.emb \cup {i} |->
                          IF k = i THEN embedding.value ELSE self.emb[k]]])
    /\ UNCHANGED <<page, pdf, relay, apiKey, upload, initialized, created, documentsDB, embeddingsDB, issued, now, deleted>>

\* one of the concurrent generateEmbedding(chunk.content) calls returns; a
\* call that raised would reject Promise.all and storeDocument with it
StoreEmbed(t, i, resp) ==
    LET self == tasks[t]
        embedding == generateEmbedding(self.doc.chunks[i].content, apiKey, resp)
    IN
    /\ self.pc = "embed"
    /\ i \in DOMAIN self.doc.chunks \ DOMAIN self.emb
    /\ resp \in CorpusResponses(self.doc.chunks[i].content)
    /\ Goto(t, IF embedding.raised
               THEN [self EXCEPT !.pc = "done", !.raised = TRUE]
               ELSE [self EXCEPT !.emb =
                       [j \in DOMAIN self.emb \cup {i} |->
                          IF j = i THEN embedding.value ELSE self.emb[j]]])
    /\ UNCHANGED <<page, pdf, relay, apiKey, upload, initialized, created, documentsDB, embeddingsDB, issued, now, deleted>>

\* chunksWithEmbeddings collected in the reverse of the chunks' order
ChunksReversed(doc, emb) ==
    LET n == Len(doc.chunks) IN
    [i \in DOMAIN doc.chunks |->
        [doc.chunks[n + 1 - i] EXCEPT !.embedding = emb[n + 1 - i]]]

\* the document stored as it was passed in
DocumentWithoutEmbeddings(doc, emb) == doc

\* chunksWithEmbeddings: Promise.all keeps the order of the chunks
ChunksWithEmbeddings(doc, emb) ==
    [i \in DOMAIN doc.chunks |-> [doc.chunks[i] EXCEPT !.embedding = emb[i]]]

\* { ...document, chunks: chunksWithEmbeddings }
DocumentWithEmbeddings(doc, emb) ==
    [doc EXCEPT !.chunks = ChunksWithEmbeddings(doc, emb)]

\* the record stored per chunk in embeddingsDB
EmbeddingRecord(doc, chunk) ==
    [documentId |-> doc.id, embedding |-> chunk.embedding,
     content |-> chunk.content, metadata |-> chunk.metadata]

\* Promise.all has resolved: await documentsDB.setItem(document.id, ...)
StorePutDocument(t) ==
    LET self == tasks[t] IN
    /\ self.pc = "embed"
    /\ DOMAIN self.emb = DOMAIN self.doc.chunks
    /\ documentsDB' = SetItem(documentsDB, self.doc.id,
                              DocumentWithEmbeddings(self.doc, self.emb))
    /\ Goto(t, [self EXCEPT !.idx = 1,
                            !.pc = IF Len(self.doc.chunks) = 0
                                   THEN "done" ELSE "putEmbedding"])
    /\ UNCHANGED <<page, pdf, relay, apiKey, upload, initialized, created, embeddingsDB, issued, now, deleted>>

\* for (const chunk of chunksWithEmbeddings) await embeddingsDB.setItem(...)
StorePutEmbedding(t) ==
    LET self  == tasks[t]
        chunk == ChunksWithEmbeddings(self.doc, self.emb)[self.idx]
    IN
    /\ self.pc = "putEmbedding"
    /\ embeddingsDB' = SetItem(embeddingsDB, chunk.id, EmbeddingRecord(self.doc, chunk))
    /\ Goto(t, [self EXCEPT !.idx = self.idx + 1,
                            !.pc = IF self.idx = Len(self.doc.chunks)
                                   THEN "done" ELSE "putEmbedding"])
    /\ UNCHANGED <<page, pdf, relay, apiKey, upload, initialized, created, documentsDB, issued, now, deleted>>

\* await documentsDB.setItem(...) rejects: the catch block logs the error
\* and throws 'Failed to store document: ...'
StorePutDocumentRaises(t) ==
    LET self == tasks[t] IN
    /\ self.pc = "embed"
    /\ DOMAIN self.emb = DOMAIN self.doc.chunks
    /\ Goto(t, [self EXCEPT !.pc = "done", !.raised = TRUE, !.failed = TRUE])
    /\ UNCHANGED <<page, pdf, relay, apiKey, upload, initialized, created, documentsDB, embeddingsDB, issued, now, deleted>>

\* await embeddingsDB.setItem(...) rejects in the loop: the same catch block
StorePutEmbeddingRaises(t) ==
    LET self == tasks[t] IN
    /\ self.pc = "putEmbedding"
    /\ Goto(t, [self EXCEPT !.pc = "done", !.raised = TRUE, !.failed = TRUE])
    /\ UNCHANGED <<page, pdf, relay, apiKey, upload, initialized, created, documentsDB, embeddingsDB, issued, now, deleted>>

(***************************************************************************)
(* handleFileUpload and processFile (DocumentUpload)                       *)
(***************************************************************************)

\* largest number of files in one batch
MaxBatch == 2

\* the FileLists handed to handleFileUpload
Batches == UNION { [1..n -> UploadFiles] : n \in 0..MaxBatch }

\* what processDocument makes of a file before the uuids are drawn: its
\* name, getFileType's answer and chunkText(extractedText)
ProcessedFile(file) ==
    [name |-> file.name, type |-> getFileType(file).value,
     texts |-> chunkText(file.content, 1000, 100)]

\* processFile letting the error escape: the rejection ends the for loop
AfterFileLeavingOnError(u, entry) ==
    [u EXCEPT !.log = Append(@, entry),
              !.i   = @ + 1,
              !.pc  = IF u.i = Len(u.files) \/ entry.error # ""
                      THEN "done" ELSE "processFile"]

\* await processFile(file) has returned, with entry as what it came to: the
\* for loop goes on to the next file
AfterFile(u, entry) ==
    [u EXCEPT !.log = Append(@, entry),
              !.i   = @ + 1,
              !.pc  = IF u.i = Len(u.files) THEN "done" ELSE "processFile"]

\* handleFileUpload(files); every file of the batch can draw its uuids
HandleFileUpload(t, files) ==
    /\ upload.pc = "idle"
    /\ tasks[t].pc = "idle"
    /\ Len(files) <= Cardinality(DocIds \ issued.docs)
    /\ Len(files) <= Cardinality(ChunkIds \ issued.chunks)
    /\ upload' = [pc |-> IF Len(files) = 0 THEN "done" ELSE "processFile",
                  files |-> files, i |-> 1, log |-> <<>>]
    /\ UNCHANGED <<page, pdf, relay, apiKey, initialized, created, documentsDB, embeddingsDB, issued, now,
                   tasks, deleted>>

\* processFile: validateFile(file) is not valid; the error is thrown, caught
\* and set as uploadState.error
ProcessFileRejected(t) ==
    LET file       == upload.files[upload.i]
        validation == validateFile(file)
    IN
    /\ upload.pc = "processFile"
    /\ tasks[t].pc = "idle"
    /\ ~validation.valid
    /\ upload' = AfterFile(upload, [name |-> file.name, stage |-> "validate",
                                    error |-> validation.error, documentId |-> 0])
    /\ UNCHANGED <<page, pdf, relay, apiKey, initialized, created, documentsDB, embeddingsDB, issued, now,
                   tasks, deleted>>

\* processFile: the file is valid and processDocument throws (getFileType
\* throws, or the extraction of the text fails)
ProcessFileProcessingFails(t) ==
    LET file == upload.files[upload.i] IN
    /\ upload.pc = "processFile"
    /\ tasks[t].pc = "idle"
    /\ validateFile(file).valid
    /\ upload' = AfterFile(upload, [name |-> file.name, stage |-> "process",
                                    error |-> IF getFileType(file).threw
                                              THEN "Unsupported file type"
                                              ELSE "Failed to process",
                                    documentId |-> 0])
    /\ UNCHANGED <<page, pdf, relay, apiKey, initialized, created, documentsDB, embeddingsDB, issued, now,
                   tasks, deleted>>

\* processFile: the file is valid, processDocument returns and
\* storeDocument(processedDoc) is entered
ProcessFileStore(t, id, cids) ==
    LET file == upload.files[upload.i] IN
    /\ upload.pc = "processFile"
    /\ validateFile(file).valid
    /\ ~getFileType(file).threw
    /\ ProcessDocument(t, ProcessedFile(file), id, cids)

\* processFile: storeDocument has returned or thrown; on success the
\* documents and the statistics are read again (loadDocuments,
\* loadStorageStats)
ProcessFileSettled(t) ==
    LET file == upload.files[upload.i]
        self == tasks[t]
    IN
    /\ upload.pc = "processFile"
    /\ self.pc = "done"
    /\ self.op = "store"
    /\ upload' = AfterFile(upload,
                    IF self.raised
                    THEN [name |-> file.name, stage |-> "store",
                          error |-> "Failed to store document",
                          documentId |-> self.doc.id]
                    ELSE [name |-> file.name, stage |-> "done", error |-> "",
                          documentId |-> self.doc.id])
    /\ Goto(t, IdleTask)
    /\ UNCHANGED <<page, pdf, relay, apiKey, initialized, created, documentsDB, embeddingsDB, issued, now, deleted>>

\* handleFileUpload has returned
HandleFileUploadReturn ==
    /\ upload.pc = "done"
    /\ upload' = IdleUpload
    /\ UNCHANGED <<page, pdf, relay, apiKey, initialized, created, documentsDB, embeddingsDB, issued, now,
                   tasks, deleted>>

(***************************************************************************)
(* getAllDocuments                                                         *)
(***************************************************************************)

\* documents.sort((a, b) => b.createdAt - a.createdAt) over iterate()'s order
DocumentsNewestFirst(db) ==
    LET all == Iterate(db)
        c   == [i \in DOMAIN all |-> [j \in DOMAIN all |->
                  all[j].createdAt - all[i].createdAt]]
        order == SortIndices(Len(all), c)
    IN  [k \in DOMAIN order |-> all[order[k]]]

GetAllDocuments(t) ==
    /\ tasks[t].pc = "idle"
    /\ initializeDatabases
    /\ Goto(t, [IdleTask EXCEPT !.pc = "done", !.op = "getAll",
                                !.ret = DocumentsNewestFirst(documentsDB)])
    /\ UNCHANGED <<page, pdf, relay, apiKey, upload, documentsDB, embeddingsDB, issued, now, deleted>>

\* getAllDocuments is entered and calls initializeDatabases (in the
\* browser): with both handles constructed it goes on at once, else it is
\* suspended at await import('localforage')
GetAllDocumentsEnter(t) ==
    /\ tasks[t].pc = "idle"
    /\ Goto(t, [IdleTask EXCEPT !.op = "getAll",
                                !.pc = IF initialized THEN "iterate" ELSE "import"])
    /\ UNCHANGED <<page, pdf, relay, apiKey, upload, initialized, created, documentsDB, embeddingsDB, issued, now, deleted>>

\* the import has resolved: initializeDatabases constructs both handles,
\* without looking at them again, and returns them
GetAllDocumentsImported(t) ==
    /\ tasks[t].pc = "import"
    /\ initialized' = TRUE
    /\ created' = CreateInstances(created)
    /\ Goto(t, [tasks[t] EXCEPT !.pc = "iterate"])
    /\ UNCHANGED <<page, pdf, relay, apiKey, upload, documentsDB, embeddingsDB, issued, now, deleted>>

\* await documentsDB.iterate(...), sort, return
GetAllDocumentsIterate(t) ==
    /\ tasks[t].pc = "iterate"
    /\ Goto(t, [tasks[t] EXCEPT !.pc = "done",
                                !.ret = DocumentsNewestFirst(documentsDB)])
    /\ UNCHANGED <<page, pdf, relay, apiKey, upload, initialized, created, documentsDB, embeddingsDB, issued, now, deleted>>

\* initializeDatabases or documentsDB.iterate rejects: the catch block logs
\* the error and returns []
GetAllDocumentsCatch(t) ==
    /\ tasks[t].pc = "idle"
    /\ initializeDatabasesOrThrow
    /\ Goto(t, [IdleTask EXCEPT !.pc = "done", !.op = "getAll", !.ret = <<>>,
                                !.failed = TRUE])
    /\ UNCHANGED <<page, pdf, relay, apiKey, upload, documentsDB, embeddingsDB, issued, now, deleted>>

(***************************************************************************)
(* deleteDocument                                                          *)
(***************************************************************************)

\* deleteDocument removing the document record as soon as it has read it
DeleteGetRemovingDocument(t, documentId) ==
    LET document == GetItem(documentsDB, documentId) IN
    /\ tasks[t].pc = "idle"
    /\ documentId \in issued.docs
    /\ initializeDatabases
    /\ documentsDB' = RemoveItem(documentsDB, documentId)
    /\ Goto(t, [IdleTask EXCEPT !.op = "delete", !.doc = document, !.idx = 1,
                                !.pc = IF document = NoDocument THEN "done"
                                       ELSE IF Len(document.chunks) = 0 THEN "removeDocument"
                                       ELSE "removeEmbedding"])
    /\ UNCHANGED <<page, pdf, relay, apiKey, upload, embeddingsDB, issued, now, deleted>>

\* const document = await documentsDB.getItem(documentId)
DeleteGet(t, documentId) ==
    LET document == GetItem(documentsDB, documentId) IN
    /\ tasks[t].pc = "idle"
    /\ documentId \in issued.docs
    /\ initializeDatabases
    /\ Goto(t, [IdleTask EXCEPT !.op = "delete", !.doc = document, !.idx = 1,
                                !.pc = IF document = NoDocument THEN "done"
                                       ELSE IF Len(document.chunks) = 0 THEN "removeDocument"
                                       ELSE "removeEmbedding"])
    /\ UNCHANGED <<page, pdf, relay, apiKey, upload, documentsDB, embeddingsDB, issued, now, deleted>>

\* the loop over document.chunks left after its first round
DeleteRemoveEmbeddingFirstOnly(t) ==
    LET self == tasks[t] IN
    /\ self.pc = "removeEmbedding"
    /\ embeddingsDB' = RemoveItem(embeddingsDB, self.doc.chunks[self.idx].id)
    /\ Goto(t, [self EXCEPT !.idx = self.idx + 1, !.pc = "removeDocument"])
    /\ UNCHANGED <<page, pdf, relay, apiKey, upload, initialized, created, documentsDB, issued, now, deleted>>

\* for (const chunk of document.chunks) await embeddingsDB.removeItem(chunk.id)
DeleteRemoveEmbedding(t) ==
    LET self == tasks[t] IN
    /\ self.pc = "removeEmbedding"
    /\ embeddingsDB' = RemoveItem(embeddingsDB, self.doc.chunks[self.idx].id)
    /\ Goto(t, [self EXCEPT !.idx = self.idx + 1,
                            !.pc = IF self.idx = Len(self.doc.chunks)
                                   THEN "removeDocument" ELSE "removeEmbedding"])
    /\ UNCHANGED <<page, pdf, relay, apiKey, upload, initialized, created, documentsDB, issued, now, deleted>>

\* await documentsDB.removeItem(documentId)
DeleteRemoveDocument(t) ==
    LET self == tasks[t] IN
    /\ self.pc = "removeDocument"
    /\ documentsDB' = RemoveItem(documentsDB, self.doc.id)
    /\ Goto(t, [self EXCEPT !.pc = "done"])
    /\ deleted' = deleted \cup {self.doc.chunks[i].id : i \in DOMAIN self.doc.chunks}
    /\ UNCHANGED <<page, pdf, relay, apiKey, upload, initialized, created, embeddingsDB, issued, now>>

\* initializeDatabases or documentsDB.getItem rejects: the catch block logs
\* the error and throws 'Failed to delete document'
DeleteGetRaises(t, documentId) ==
    /\ tasks[t].pc = "idle"
    /\ documentId \in issued.docs
    /\ initializeDatabasesOrThrow
    /\ Goto(t, [IdleTask EXCEPT !.op = "delete", !.pc = "done",
                                !.raised = TRUE, !.failed = TRUE])
    /\ UNCHANGED <<page, pdf, relay, apiKey, upload, documentsDB, embeddingsDB, issued, now, deleted>>

\* embeddingsDB.removeItem rejects in the loop: the same catch block
DeleteRemoveEmbeddingRaises(t) ==
    /\ tasks[t].pc = "removeEmbedding"
    /\ Goto(t, [tasks[t] EXCEPT !.pc = "done", !.raised = TRUE, !.failed = TRUE])
    /\ UNCHANGED <<page, pdf, relay, apiKey, upload, initialized, created, documentsDB, embeddingsDB, issued, now, deleted>>

\* documentsDB.removeItem rejects: the same catch block
DeleteRemoveDocumentRaises(t) ==
    /\ tasks[t].pc = "removeDocument"
    /\ Goto(t, [tasks[t] EXCEPT !.pc = "done", !.raised = TRUE, !.failed = TRUE])
    /\ UNCHANGED <<page, pdf, relay, apiKey, upload, initialized, created, documentsDB, embeddingsDB, issued, now, deleted>>

(***************************************************************************)
(* clearAllDocuments                                                       *)
(***************************************************************************)

\* await documentsDB.clear()
ClearDocuments(t) ==
    /\ tasks[t].pc = "idle"
    /\ initializeDatabases
    /\ documentsDB' = Cleared(documentsDB)
    /\ Goto(t, [IdleTask EXCEPT !.op = "clear", !.pc = "clearEmbeddings"])
    /\ UNCHANGED <<page, pdf, relay, apiKey, upload, embeddingsDB, issued, now, deleted>>

\* clearAllDocuments without embeddingsDB.clear()
ClearEmbeddingsSkipped(t) ==
    /\ tasks[t].pc = "clearEmbeddings"
    /\ Goto(t, [tasks[t] EXCEPT !.pc = "done"])
    /\ UNCHANGED <<page, pdf, relay, apiKey, upload, initialized, created, documentsDB, embeddingsDB, issued, now, deleted>>

\* await embeddingsDB.clear()
ClearEmbeddings(t) ==
    /\ tasks[t].pc = "clearEmbeddings"
    /\ embeddingsDB' = Cleared(embeddingsDB)
    /\ Goto(t, [tasks[t] EXCEPT !.pc = "done"])
    /\ UNCHANGED <<page, pdf, relay, apiKey, upload, initialized, created, documentsDB, issued, now, deleted>>

\* initializeDatabases or documentsDB.clear rejects: the catch block logs the
\* error and throws 'Failed to clear documents'
ClearDocumentsRaises(t) ==
    /\ tasks[t].pc = "idle"
    /\ initializeDatabasesOrThrow
    /\ Goto(t, [IdleTask EXCEPT !.op = "clear", !.pc = "done",
                                !.raised = TRUE, !.failed = TRUE])
    /\ UNCHANGED <<page, pdf, relay, apiKey, upload, documentsDB, embeddingsDB, issued, now, deleted>>

\* embeddingsDB.clear rejects: the same catch block
ClearEmbeddingsRaises(t) ==
    /\ tasks[t].pc = "clearEmbeddings"
    /\ Goto(t, [tasks[t] EXCEPT !.pc = "done", !.raised = TRUE, !.failed = TRUE])
    /\ UNCHANGED <<page, pdf, relay, apiKey, upload, initialized, created, documentsDB, embeddingsDB, issued, now, deleted>>

(***************************************************************************)
(* searchSimilarChunks and fallbackTextSearch                              *)
(***************************************************************************)

\* similarity >= threshold
ExceedsOrEquals(similarity, threshold) == SimCmp(similarity, threshold) >= 0

\* similarity > threshold
Exceeds(similarity, threshold) == SimCmp(similarity, threshold) > 0

\* the iterate() callback of searchSimilarChunks: allChunks, in key order
RetainedChunks(db, queryEmbedding, threshold) ==
    LET keys == KeysInOrder(DOMAIN db)
        all  == [i \in DOMAIN keys |->
                   [id |-> keys[i], content |-> db[keys[i]].content,
                    metadata |-> db[keys[i]].metadata,
                    embedding |-> db[keys[i]].embedding,
                    similarity |-> cosineSimilarity(queryEmbedding, db[keys[i]].embedding)]]
        Keep(c) == /\ c.embedding # Undefined
                   /\ Len(c.content) > 0
                   /\ Exceeds(c.similarity, threshold)
    IN  SelectSeq(all, Keep)

\* allChunks.sort((a, b) => a.similarity - b.similarity)
SortBySimilarityAscending(all) ==
    LET c == [i \in DOMAIN all |-> [j \in DOMAIN all |->
                SimCmp(all[i].similarity, all[j].similarity)]]
        order == SortIndices(Len(all), c)
    IN  [k \in DOMAIN order |-> all[order[k]]]

\* a sort by descending similarity that puts the later of two equally
\* similar records first
SortBySimilarityUnstable(all) ==
    LET c == [i \in DOMAIN all |-> [j \in DOMAIN all |->
                IF SimCmp(all[j].similarity, all[i].similarity) = 0
                THEN j - i
                ELSE SimCmp(all[j].similarity, all[i].similarity)]]
        order == SortIndices(Len(all), c)
    IN  [k \in DOMAIN order |-> all[order[k]]]

\* allChunks.sort((a, b) => b.similarity - a.similarity)
SortBySimilarity(all) ==
    LET c == [i \in DOMAIN all |-> [j \in DOMAIN all |->
                SimCmp(all[j].similarity, all[i].similarity)]]
        order == SortIndices(Len(all), c)
    IN  [k \in DOMAIN order |-> all[order[k]]]

\* sortedChunks
SemanticResult(db, queryEmbedding, topK, threshold) ==
    Slice(SortBySimilarity(RetainedChunks(db, queryEmbedding, threshold)), topK)

\* the iterate() callback of fallbackTextSearch: allChunks, in key order
LexicalCorpus(db) ==
    LET keys == KeysInOrder(DOMAIN db)
        all  == [i \in DOMAIN keys |->
                   [id |-> keys[i], content |-> db[keys[i]].content,
                    metadata |-> db[keys[i]].metadata,
                    embedding |-> Undefined, similarity |-> NoSim]]
        Keep(c) == Len(c.content) > 0
    IN  SelectSeq(all, Keep)

\* fuse.search(query): Fuse.js is a library outside the repository; all that
\* is used of it is that it answers with items of the list it was built
\* over, each at most once, in an order of its own
FuseResults(list, query) ==
    UNION { Injections(n, Range(list)) : n \in 0..Len(list) }

\* if (sortedChunks.length < topK)
FewerThanTopK(sortedChunks, topK) == Len(sortedChunks) < topK

\* if (sortedChunks.length === 0)
NoGoodMatches(sortedChunks, topK) == Len(sortedChunks) = 0

\* searchSimilarChunks keeping the query's embedding in the embedding index
SearchSimilarChunksCaching(t, query, topK, threshold, resp) ==
    LET queryEmbedding == generateEmbedding(query, apiKey, resp)
        sortedChunks ==
            SemanticResult(embeddingsDB, queryEmbedding.value, topK, threshold)
    IN
    /\ tasks[t].pc = "idle"
    /\ resp \in CorpusResponses(query)
    /\ initializeDatabases
    /\ embeddingsDB' = SetItem(embeddingsDB, 0,
                               [documentId |-> 0, embedding |-> queryEmbedding.value,
                                content |-> query, metadata |-> <<>>])
    /\ Goto(t, IF NoGoodMatches(sortedChunks, topK)
               THEN [IdleTask EXCEPT !.op = "search", !.pc = "fallback",
                                     !.query = query, !.topK = topK,
                                     !.sortedChunks = sortedChunks]
               ELSE [IdleTask EXCEPT !.op = "search", !.pc = "done",
                                     !.query = query, !.topK = topK,
                                     !.threshold = threshold,
                                     !.qvec = queryEmbedding.value,
                                     !.sortedChunks = sortedChunks,
                                     !.ret = sortedChunks])
    /\ UNCHANGED <<page, pdf, relay, apiKey, upload, documentsDB, issued, now, deleted>>

\* const queryEmbedding = await generateEmbedding(query), then
\* await embeddingsDB.iterate(...), sort, slice: a non-empty result is
\* returned, an empty one hands query and topK to fallbackTextSearch.
\* (The embedding call touches no shared state, so the step is taken at the
\* moment of the iteration.)
SearchSimilarChunks(t, query, topK, threshold, resp) ==
    LET queryEmbedding == generateEmbedding(query, apiKey, resp)
        sortedChunks ==
            SemanticResult(embeddingsDB, queryEmbedding.value, topK, threshold)
    IN
    /\ tasks[t].pc = "idle"
    /\ resp \in CorpusResponses(query)
    /\ initializeDatabases
    /\ Goto(t, IF queryEmbedding.raised
               THEN [IdleTask EXCEPT !.op = "search", !.pc = "fallback",
                                     !.query = query, !.topK = topK,
                                     !.caught = TRUE]
               ELSE IF NoGoodMatches(sortedChunks, topK)
               THEN [IdleTask EXCEPT !.op = "search", !.pc = "fallback",
                                     !.query = query, !.topK = topK,
                                     !.sortedChunks = sortedChunks]
               ELSE [IdleTask EXCEPT !.op = "search", !.pc = "done",
                                     !.query = query, !.topK = topK,
                                     !.threshold = threshold,
                                     !.qvec = queryEmbedding.value,
                                     !.sortedChunks = sortedChunks,
                                     !.ret = sortedChunks])
    /\ UNCHANGED <<page, pdf, relay, apiKey, upload, documentsDB, embeddingsDB, issued, now, deleted>>

\* await initializeDatabases() or await embeddingsDB.iterate(...) rejects
\* inside the try block: the catch block logs the error and hands query and
\* topK to fallbackTextSearch
SearchSimilarChunksCatch(t, query, topK) ==
    /\ tasks[t].pc = "idle"
    /\ initializeDatabasesOrThrow
    /\ Goto(t, [IdleTask EXCEPT !.op = "search", !.pc = "fallback",
                                !.query = query, !.topK = topK,
                                !.caught = TRUE, !.failed = TRUE])
    /\ UNCHANGED <<page, pdf, relay, apiKey, upload, documentsDB, embeddingsDB, issued, now, deleted>>

\* fallbackTextSearch rejects (initializeDatabases, iterate or the import of
\* fuse.js): it has no try block, and searchSimilarChunks awaits it in the
\* return statements of its try and of its catch block, so the rejection is
\* the caller's
FallbackTextSearchRaises(t) ==
    LET self == tasks[t] IN
    /\ self.pc = "fallback"
    /\ initializeDatabasesOrThrow
    /\ Goto(t, [self EXCEPT !.pc = "done", !.lexical = TRUE, !.raised = TRUE,
                            !.failed = TRUE])
    /\ UNCHANGED <<page, pdf, relay, apiKey, upload, documentsDB, embeddingsDB, issued, now, deleted>>

\* fallbackTextSearch(query, topK): results.slice(0, topK).map(r => r.item)
FallbackTextSearch(t, results) ==
    LET self == tasks[t] IN
    /\ self.pc = "fallback"
    /\ results \in FuseResults(LexicalCorpus(embeddingsDB), self.query)
    /\ initializeDatabases
    /\ Goto(t, [self EXCEPT !.pc = "done", !.lexical = TRUE, !.matches = results,
                            !.ret = Slice(results, self.topK)])
    /\ UNCHANGED <<page, pdf, relay, apiKey, upload, documentsDB, embeddingsDB, issued, now, deleted>>

\* the operation has returned to its caller
Return(t) ==
    /\ tasks[t].pc = "done"
    /\ Goto(t, IdleTask)
    /\ UNCHANGED <<page, pdf, relay, apiKey, upload, initialized, created, documentsDB, embeddingsDB, issued, now, deleted>>

(***************************************************************************)
(* The chat page: its documents list and sendMessage                       *)
(***************************************************************************)

\* searchSimilarChunks(currentInput, 3)
SendTopK == 3

\* threshold: number = 0.3
DefaultThreshold == [num |-> 3, den2 |-> 100]

\* loadDocuments of the upload panel (on mount, after an upload, after a
\* deletion in the panel): getAllDocuments, then onDocumentsChange(docs),
\* which is the page's setDocuments
LoadDocuments(t) ==
    /\ tasks[t].pc = "idle"
    /\ initializeDatabases
    /\ page' = [page EXCEPT !.documents = DocumentsNewestFirst(documentsDB)]
    /\ UNCHANGED <<pdf, relay, apiKey, upload, documentsDB, embeddingsDB, issued, now,
                   tasks, deleted>>

\* the delete button of the sidebar list:
\* setDocuments(prev => prev.filter(doc => doc.id !== documentId))
HandleDeleteDocument(documentId) ==
    /\ \E i \in DOMAIN page.documents : page.documents[i].id = documentId
    /\ page' = [page EXCEPT
                  !.documents = SelectSeq(@, LAMBDA doc : doc.id # documentId),
                  !.removed = @ \cup {doc \in Range(page.documents) :
                                          doc.id = documentId}]
    /\ UNCHANGED <<pdf, relay, apiKey, upload, initialized, created, documentsDB,
                   embeddingsDB, issued, now, tasks, deleted>>

\* the switch: setRagEnabled(!ragEnabled)
ToggleRag ==
    /\ page' = [page EXCEPT !.ragEnabled = ~@]
    /\ UNCHANGED <<pdf, relay, apiKey, upload, initialized, created, documentsDB,
                   embeddingsDB, issued, now, tasks, deleted>>

\* sendMessage with RAG switched off or an empty documents list: ragContext
\* stays []
SendMessageWithoutSearch(t) ==
    /\ tasks[t].pc = "idle"
    /\ ~(page.ragEnabled /\ Len(page.documents) > 0)
    /\ page' = [page EXCEPT !.ragContext = <<>>]
    /\ UNCHANGED <<pdf, relay, apiKey, upload, initialized, created, documentsDB,
                   embeddingsDB, issued, now, tasks, deleted>>

\* sendMessage with RAG enabled and documents listed:
\* await searchSimilarChunks(currentInput, 3)
SendMessage(t, currentInput, resp) ==
    /\ page.ragEnabled
    /\ Len(page.documents) > 0
    /\ SearchSimilarChunks(t, currentInput, SendTopK, DefaultThreshold, resp)

\* the search has returned: ragContext is what it returned, or stays [] when
\* it raised (the inner catch); the message then goes to /api/chat with the
\* context in its system prompt
SendMessageSettled(t) ==
    /\ tasks[t].pc = "done"
    /\ tasks[t].op = "search"
    /\ page' = [page EXCEPT !.ragContext = IF tasks[t].raised THEN <<>>
                                           ELSE tasks[t].ret]
    /\ Goto(t, IdleTask)
    /\ UNCHANGED <<pdf, relay, apiKey, upload, initialized, created, documentsDB,
                   embeddingsDB, issued, now, deleted>>

(***************************************************************************)
(* extractTextFromPDF, page by page                                        *)
(***************************************************************************)

\* largest number of pages of a PDF
MaxPages == 3

\* the items of a page's text content: none; one of white space; "Red
\* apples."; "Blue\n" and "skies."; "x\n[Page 9]\ny"
PageItems ==
    { <<>>, << <<32>> >>, <<TextApples>>,
      << <<66, 108, 117, 101, 10>>, <<115, 107, 105, 101, 115, 46>> >>,
      << <<120, 10, 91, 80, 97, 103, 101, 32, 57, 93, 10, 121>> >> }

\* fullText and the loop variable moved on to the next page
AfterPage(f, text) ==
    [f EXCEPT !.fullText = text,
              !.visited  = Append(@, f.i),
              !.i        = @ + 1,
              !.pc       = IF f.i >= f.numPages THEN "end" ELSE "getPage"]

\* the worker is set up and getDocument(...).promise resolves with a
\* document of numPages pages: let fullText = '' and the for loop begins
ExtractTextFromPDF(numPages) ==
    /\ pdf.pc = "idle"
    /\ pdf' = [IdlePdf EXCEPT !.numPages = numPages, !.i = 1,
                              !.pc = IF numPages >= 1 THEN "getPage" ELSE "end"]
    /\ UNCHANGED <<page, relay, apiKey, upload, initialized, created, documentsDB, embeddingsDB,
                   issued, now, tasks, deleted>>

\* the import of pdfjs-dist, file.arrayBuffer() or getDocument rejects: the
\* outer catch block throws an error of its own
ExtractTextFromPDFLoadFails ==
    /\ pdf.pc = "idle"
    /\ pdf' = [IdlePdf EXCEPT !.pc = "thrown"]
    /\ UNCHANGED <<page, relay, apiKey, upload, initialized, created, documentsDB, embeddingsDB,
                   issued, now, tasks, deleted>>

\* getPage(i) and getTextContent() resolve: a page with text adds its
\* section to fullText, a page without adds nothing
PageRead(items) ==
    LET pageText == PageText(items) IN
    /\ pdf.pc = "getPage"
    /\ pdf' = AfterPage(pdf, IF Len(pageText) > 0
                            THEN pdf.fullText \o PageSection(pdf.i, pageText)
                            ELSE pdf.fullText)
    /\ UNCHANGED <<page, relay, apiKey, upload, initialized, created, documentsDB, embeddingsDB,
                   issued, now, tasks, deleted>>

\* a page's failure leaving the for loop for the outer catch block
PageFailsAborting ==
    /\ pdf.pc = "getPage"
    /\ pdf' = [pdf EXCEPT !.failed = @ \cup {pdf.i}, !.visited = Append(@, pdf.i),
                          !.pc = "thrown"]
    /\ UNCHANGED <<page, relay, apiKey, upload, initialized, created, documentsDB, embeddingsDB,
                   issued, now, tasks, deleted>>

\* getPage(i) or getTextContent() rejects: the catch block inside the loop
\* adds the page's section with the placeholder
PageFails ==
    /\ pdf.pc = "getPage"
    /\ pdf' = [AfterPage(pdf, pdf.fullText \o PageSection(pdf.i, ErrorPlaceholder))
                 EXCEPT !.failed = @ \cup {pdf.i}]
    /\ UNCHANGED <<page, relay, apiKey, upload, initialized, created, documentsDB, embeddingsDB,
                   issued, now, tasks, deleted>>

\* after the loop: if (!fullText.trim()) throw ..., else return fullText
ExtractTextFromPDFReturn ==
    /\ pdf.pc = "end"
    /\ pdf' = [pdf EXCEPT !.pc = IF Len(trim(pdf.fullText)) = 0
                                 THEN "thrown" ELSE "returned"]
    /\ UNCHANGED <<page, relay, apiKey, upload, initialized, created, documentsDB, embeddingsDB,
                   issued, now, tasks, deleted>>

\* the caller has the text, or the error
ExtractTextFromPDFSettled ==
    /\ pdf.pc \in {"returned", "thrown"}
    /\ pdf' = IdlePdf
    /\ UNCHANGED <<page, relay, apiKey, upload, initialized, created, documentsDB, embeddingsDB,
                   issued, now, tasks, deleted>>

NextPdf ==
    \/ \E numPages \in 0..MaxPages : ExtractTextFromPDF(numPages)
    \/ ExtractTextFromPDFLoadFails
    \/ \E items \in PageItems : PageRead(items)
    \/ PageFails
    \/ ExtractTextFromPDFReturn
    \/ ExtractTextFromPDFSettled

SpecPdf == Init /\ [][NextPdf]_vars

(***************************************************************************)
(* POST of the chat route: the relay of the upstream event stream          *)
(***************************************************************************)

\* largest number of chunks the upstream stream delivers
MaxUpstreamChunks == 3

\* the chunks of an upstream stream: 'data: a\n\n', 'data: ' and 'b\n\n'
UpstreamChunks ==
    { <<100, 97, 116, 97, 58, 32, 97, 10, 10>>, <<100, 97, 116, 97, 58, 32>>,
      <<98, 10, 10>> }

\* the upstream streams
UpstreamBodies == UNION { [1..n -> UpstreamChunks] : n \in 0..MaxUpstreamChunks }

\* encoder.encode(`data: ${JSON.stringify(errorData)}\n\n`)
ErrorEvent ==
    <<100, 97, 116, 97, 58, 32, 123, 34, 99, 104, 111, 105, 99, 101, 115, 34,
    58, 91, 123, 34, 100, 101, 108, 116, 97, 34, 58, 123, 34, 99, 111, 110,
    116, 101, 110, 116, 34, 58, 34, 83, 111, 114, 114, 121, 44, 32, 73, 32,
    101, 110, 99, 111, 117, 110, 116, 101, 114, 101, 100, 32, 97, 110, 32,
    101, 114, 114, 111, 114, 32, 119, 104, 105, 108, 101, 32, 112, 114, 111,
    99, 101, 115, 115, 105, 110, 103, 32, 121, 111, 117, 114, 32, 114, 101,
    113, 117, 101, 115, 116, 46, 32, 80, 108, 101, 97, 115, 101, 32, 116, 114,
    121, 32, 97, 103, 97, 105, 110, 32, 108, 97, 116, 101, 114, 46, 34, 125,
    125, 93, 125, 10, 10>>

\* encoder.encode('data: [DONE]\n\n')
DoneEvent == <<100, 97, 116, 97, 58, 32, 91, 68, 79, 78, 69, 93, 10, 10>>

\* POST with the API key set, a request body that parses and an upstream
\* response that is OK: the stream is constructed and its start(controller)
\* runs. Without a reader (response.body is null) it closes the stream and
\* returns; with one it enters the read loop.
Post(hasBody, body) ==
    /\ relay.pc = "idle"
    /\ hasBody \/ body = <<>>
    /\ relay' = IF hasBody
                THEN [IdleRelay EXCEPT !.pc = "read", !.upstream = "body",
                                       !.body = body, !.state = "open"]
                ELSE [IdleRelay EXCEPT !.pc = "finished", !.upstream = "noBody",
                                       !.state = "closed"]
    /\ UNCHANGED <<page, pdf, apiKey, upload, initialized, created, documentsDB, embeddingsDB,
                   issued, now, tasks, deleted>>

\* POST without API key, or req.json() or fetch rejecting, or an upstream
\* response that is not OK: the catch block answers with a stream of its
\* own, two events and closed
PostFails ==
    /\ relay.pc = "idle"
    /\ relay' = [IdleRelay EXCEPT !.pc = "finished", !.upstream = "failed",
                                  !.enqueued = <<ErrorEvent, DoneEvent>>,
                                  !.state = "closed"]
    /\ UNCHANGED <<page, pdf, apiKey, upload, initialized, created, documentsDB, embeddingsDB,
                   issued, now, tasks, deleted>>

\* the read loop enqueuing every value twice
RelayReadTwice ==
    /\ relay.pc = "read"
    /\ Len(relay.body) > 0
    /\ relay' = [relay EXCEPT !.body = Tail(@),
                              !.read = Append(@, Head(relay.body)),
                              !.enqueued = @ \o <<Head(relay.body), Head(relay.body)>>]
    /\ UNCHANGED <<page, pdf, apiKey, upload, initialized, created, documentsDB, embeddingsDB,
                   issued, now, tasks, deleted>>

\* const { done, value } = await reader.read() with a chunk:
\* controller.enqueue(value)
RelayRead ==
    /\ relay.pc = "read"
    /\ Len(relay.body) > 0
    /\ relay' = [relay EXCEPT !.body = Tail(@),
                              !.read = Append(@, Head(relay.body)),
                              !.enqueued = Append(@, Head(relay.body))]
    /\ UNCHANGED <<page, pdf, apiKey, upload, initialized, created, documentsDB, embeddingsDB,
                   issued, now, tasks, deleted>>

\* reader.read() reports done: controller.close(), break, releaseLock
RelayDone ==
    /\ relay.pc = "read"
    /\ Len(relay.body) = 0
    /\ relay' = [relay EXCEPT !.doneSeen = TRUE, !.state = "closed",
                              !.pc = "finished"]
    /\ UNCHANGED <<page, pdf, apiKey, upload, initialized, created, documentsDB, embeddingsDB,
                   issued, now, tasks, deleted>>

\* reader.read() rejects: controller.error(error), releaseLock
RelayReadFails ==
    /\ relay.pc = "read"
    /\ relay' = [relay EXCEPT !.state = "errored", !.pc = "finished"]
    /\ UNCHANGED <<page, pdf, apiKey, upload, initialized, created, documentsDB, embeddingsDB,
                   issued, now, tasks, deleted>>

\* the response has been delivered
RelaySettled ==
    /\ relay.pc = "finished"
    /\ relay' = IdleRelay
    /\ UNCHANGED <<page, pdf, apiKey, upload, initialized, created, documentsDB, embeddingsDB,
                   issued, now, tasks, deleted>>

NextRelay ==
    \/ \E hasBody \in BOOLEAN, body \in UpstreamBodies : Post(hasBody, body)
    \/ PostFails
    \/ RelayRead
    \/ RelayDone
    \/ RelayReadFails
    \/ RelaySettled

SpecRelay == Init /\ [][NextRelay]_vars

(***************************************************************************)
(* generateEmbedding called on its own (it is exported)                    *)
(***************************************************************************)

\* generateEmbedding(text) is entered: without an API key it returns at
\* once, with one it awaits fetch
EmbedCall(t, text) ==
    LET result == generateEmbedding(text, apiKey, NoResponse) IN
    /\ tasks[t].pc = "idle"
    /\ Goto(t, IF apiKey
               THEN [IdleTask EXCEPT !.op = "embed", !.pc = "fetch", !.query = text]
               ELSE [IdleTask EXCEPT !.op = "embed", !.pc = "done", !.query = text,
                                     !.raised = result.raised,
                                     !.qvec = result.value])
    /\ UNCHANGED <<page, pdf, relay, apiKey, upload, initialized, created, documentsDB, embeddingsDB, issued, now, deleted>>

\* the request settles with resp and generateEmbedding returns (or raises)
EmbedSettle(t, resp) ==
    LET self == tasks[t]
        result == generateEmbedding(self.query, apiKey, resp)
    IN
    /\ self.pc = "fetch"
    /\ resp \in Responses(self.query)
    /\ Goto(t, [self EXCEPT !.pc = "done", !.resp = resp,
                            !.raised = result.raised, !.qvec = result.value])
    /\ UNCHANGED <<page, pdf, relay, apiKey, upload, initialized, created, documentsDB, embeddingsDB, issued, now, deleted>>

(***************************************************************************)
(* chunkText called on its own (it is exported)                            *)
(***************************************************************************)

\* a call chunkText(text, maxChunkSize, overlap) is about to run, or none is
\* (and processDocument can be called)
InitChunk ==
    /\ apiKey = FALSE
    /\ initialized = FALSE
    /\ documentsDB = [d \in {} |-> NoDocument]
    /\ embeddingsDB = [c \in {} |-> NoDocument]
    /\ issued = [docs |-> {}, chunks |-> {}]
    /\ now = 0
    /\ deleted = {}
    /\ upload = IdleUpload
    /\ created = NeverCreated
    /\ page = InitialPage
    /\ pdf = IdlePdf
    /\ relay = IdleRelay
    /\ \/ tasks = [t \in Tasks |-> IdleTask]
       \/ \E text \in ChunkTexts, maxChunkSize \in ChunkSizes, overlap \in Overlaps :
            tasks = [t \in Tasks |->
                       IF t = "main"
                       THEN [IdleTask EXCEPT !.op = "chunk", !.pc = "chunkText",
                                             !.query = text,
                                             !.maxChunkSize = maxChunkSize,
                                             !.overlap = overlap]
                       ELSE IdleTask]

\* chunkText is synchronous: it returns its chunks in one step
ChunkText(t) ==
    LET self == tasks[t] IN
    /\ self.pc = "chunkText"
    /\ Goto(t, [self EXCEPT !.pc = "done",
                            !.ret = chunkText(self.query, self.maxChunkSize,
                                              self.overlap)])
    /\ UNCHANGED <<page, pdf, relay, apiKey, upload, initialized, created, documentsDB, embeddingsDB, issued, now, deleted>>

NextChunk ==
    \E t \in {"main"} :
        \/ ChunkText(t)
        \/ \E file \in UploadFiles, id \in DocIds :
             \E cids \in Injections(Len(ProcessedFile(file).texts), ChunkIds) :
                 /\ ~getFileType(file).threw
                 /\ ProcessDocument(t, ProcessedFile(file), id, cids)

SpecChunk == InitChunk /\ [][NextChunk]_vars

(***************************************************************************)
(* Operations run to completion one at a time                              *)
(***************************************************************************)

\* no other task is inside an operation
OthersIdle(t) == \A u \in Tasks \ {t} : tasks[u].pc = "idle"

Next ==
    \E t \in {"main"} :
        \/ \E f \in Files, id \in DocIds :
             \E cids \in Injections(Len(f.texts), ChunkIds) :
                 OthersIdle(t) /\ ProcessDocument(t, f, id, cids)
        \/ \E i \in DOMAIN tasks[t].doc.chunks :
             \E resp \in CorpusResponses(tasks[t].doc.chunks[i].content) :
                 StoreEmbed(t, i, resp)
        \/ StorePutDocument(t)
        \/ StorePutEmbedding(t)
        \/ OthersIdle(t) /\ GetAllDocuments(t)
        \/ \E documentId \in DocIds : OthersIdle(t) /\ DeleteGet(t, documentId)
        \/ DeleteRemoveEmbedding(t)
        \/ DeleteRemoveDocument(t)
        \/ OthersIdle(t) /\ ClearDocuments(t)
        \/ ClearEmbeddings(t)
        \/ \E query \in Queries, topK \in 0..MaxTopK, threshold \in Thresholds :
             \E resp \in CorpusResponses(query) :
                 OthersIdle(t) /\ SearchSimilarChunks(t, query, topK, threshold, resp)
        \/ \E results \in FuseResults(LexicalCorpus(embeddingsDB), tasks[t].query) :
             FallbackTextSearch(t, results)
        \/ Return(t)

Spec == Init /\ [][Next]_vars

(***************************************************************************)
(* The same, with the calls on the stores that a search makes rejecting    *)
(***************************************************************************)

NextSearch ==
    \/ Next
    \/ \E t \in {"main"} :
        \/ \E query \in Queries, topK \in 0..MaxTopK :
             OthersIdle(t) /\ SearchSimilarChunksCatch(t, query, topK)
        \/ FallbackTextSearchRaises(t)

SpecSearch == Init /\ [][NextSearch]_vars

(***************************************************************************)
(* Operations one at a time, with the calls on the stores that             *)
(* storeDocument, getAllDocuments, deleteDocument and clearAllDocuments    *)
(* make rejecting                                                          *)
(***************************************************************************)

NextFail ==
    \/ Next
    \/ \E t \in {"main"} :
        \/ StorePutDocumentRaises(t)
        \/ StorePutEmbeddingRaises(t)
        \/ OthersIdle(t) /\ GetAllDocumentsCatch(t)
        \/ \E documentId \in DocIds : OthersIdle(t) /\ DeleteGetRaises(t, documentId)
        \/ DeleteRemoveEmbeddingRaises(t)
        \/ DeleteRemoveDocumentRaises(t)
        \/ OthersIdle(t) /\ ClearDocumentsRaises(t)
        \/ ClearEmbeddingsRaises(t)

SpecFail == Init /\ [][NextFail]_vars

(***************************************************************************)
(* A reader beside a writer: the two tasks are resumed in any order at     *)
(* their awaits                                                            *)
(***************************************************************************)

NextConc ==
    \/ \E t \in {"main"} :
        \/ \E f \in Files, id \in DocIds :
             \E cids \in Injections(Len(f.texts), ChunkIds) :
                 ProcessDocument(t, f, id, cids)
        \/ \E i \in DOMAIN tasks[t].doc.chunks :
             \E resp \in CorpusResponses(tasks[t].doc.chunks[i].content) :
                 StoreEmbed(t, i, resp)
        \/ StorePutDocument(t)
        \/ StorePutEmbedding(t)
        \/ \E documentId \in DocIds : DeleteGet(t, documentId)
        \/ DeleteRemoveEmbedding(t)
        \/ DeleteRemoveDocument(t)
        \/ Return(t)
    \/ \E t \in {"reader"} :
        \/ GetAllDocuments(t)
        \/ \E query \in Queries, topK \in 0..MaxTopK, threshold \in Thresholds :
             \E resp \in CorpusResponses(query) :
                 SearchSimilarChunks(t, query, topK, threshold, resp)
        \/ \E results \in FuseResults(LexicalCorpus(embeddingsDB), tasks[t].query) :
             FallbackTextSearch(t, results)
        \/ Return(t)

SpecConc == Init /\ [][NextConc]_vars

(***************************************************************************)
(* Writers beside each other: storeDocument, deleteDocument and            *)
(* clearAllDocuments of two tasks, resumed in any order at their awaits    *)
(***************************************************************************)

NextWriters ==
    \E t \in Tasks :
        \/ \E f \in Files, id \in DocIds :
             \E cids \in Injections(Len(f.texts), ChunkIds) :
                 ProcessDocument(t, f, id, cids)
        \/ \E i \in DOMAIN tasks[t].doc.chunks :
             \E resp \in CorpusResponses(tasks[t].doc.chunks[i].content) :
                 StoreEmbed(t, i, resp)
        \/ StorePutDocument(t)
        \/ StorePutEmbedding(t)
        \/ \E documentId \in DocIds : DeleteGet(t, documentId)
        \/ DeleteRemoveEmbedding(t)
        \/ DeleteRemoveDocument(t)
        \/ ClearDocuments(t)
        \/ ClearEmbeddings(t)
        \/ Return(t)

SpecWriters == Init /\ [][NextWriters]_vars

(***************************************************************************)
(* The chat page: documents are stored and listed, taken off the list      *)
(* with the delete button (while no message is being sent), and messages   *)
(* are sent                                                                *)
(***************************************************************************)

NextPage ==
    \E t \in {"main"} :
        \/ \E f \in Files, id \in DocIds :
             \E cids \in Injections(Len(f.texts), ChunkIds) :
                 ProcessDocument(t, f, id, cids)
        \/ \E i \in DOMAIN tasks[t].doc.chunks :
             \E resp \in CorpusResponses(tasks[t].doc.chunks[i].content) :
                 StoreEmbed(t, i, resp)
        \/ StorePutDocument(t)
        \/ StorePutEmbedding(t)
        \/ tasks[t].op = "store" /\ Return(t)
        \/ LoadDocuments(t)
        \/ \E documentId \in DocIds :
             tasks[t].pc = "idle" /\ HandleDeleteDocument(documentId)
        \/ tasks[t].pc = "idle" /\ ToggleRag
        \/ SendMessageWithoutSearch(t)
        \/ \E currentInput \in Queries :
             \E resp \in CorpusResponses(currentInput) :
                 SendMessage(t, currentInput, resp)
        \/ \E results \in FuseResults(LexicalCorpus(embeddingsDB), tasks[t].query) :
             FallbackTextSearch(t, results)
        \/ SendMessageSettled(t)

SpecPage == Init /\ [][NextPage]_vars

(***************************************************************************)
(* The first calls of initializeDatabases: getAllDocuments of two tasks    *)
(* (loadDocuments and loadStorageStats, both started when the upload       *)
(* panel mounts) resumed in any order, beside the operations one at a time *)
(***************************************************************************)

NextInit ==
    \/ Next
    \/ \E t \in Tasks :
        \/ GetAllDocumentsEnter(t)
        \/ GetAllDocumentsImported(t)
        \/ GetAllDocumentsIterate(t)
        \/ tasks[t].op = "getAll" /\ Return(t)

SpecInit == Init /\ [][NextInit]_vars

(***************************************************************************)
(* Batch uploads, with the writes of storeDocument rejecting               *)
(***************************************************************************)

NextUpload ==
    \E t \in {"main"} :
        \/ \E files \in Batches : HandleFileUpload(t, files)
        \/ ProcessFileRejected(t)
        \/ ProcessFileProcessingFails(t)
        \/ /\ upload.pc = "processFile"
           /\ \E id \in DocIds :
                \E cids \in Injections(Len(ProcessedFile(upload.files[upload.i]).texts),
                                       ChunkIds) :
                    ProcessFileStore(t, id, cids)
        \/ \E i \in DOMAIN tasks[t].doc.chunks :
             \E resp \in CorpusResponses(tasks[t].doc.chunks[i].content) :
                 StoreEmbed(t, i, resp)
        \/ StorePutDocument(t)
        \/ StorePutDocumentRaises(t)
        \/ StorePutEmbedding(t)
        \/ StorePutEmbeddingRaises(t)
        \/ ProcessFileSettled(t)
        \/ HandleFileUploadReturn

SpecUpload == Init /\ [][NextUpload]_vars

NextEmbed ==
    \E t \in {"main"} :
        \/ \E text \in EmbedTexts : EmbedCall(t, text)
        \/ \E resp \in Responses(tasks[t].query) : EmbedSettle(t, resp)
        \/ Return(t)

SpecEmbed == Init /\ [][NextEmbed]_vars

(***************************************************************************)
(* Properties                                                              *)
(***************************************************************************)

ChunkIdsOf(doc) == {doc.chunks[i].id : i \in DOMAIN doc.chunks}

\* no task is inside an operation
Quiet == \A t \in Tasks : tasks[t].pc \in {"idle", "done"}

Finished(t, op) == tasks[t].pc = "done" /\ tasks[t].op = op

\* the search of task t has returned the result of the cosine-similarity path
SemanticDone(t) == Finished(t, "search") /\ tasks[t].qvec # Undefined

\* C1: with storeDocument, deleteDocument and clearAllDocuments run to
\* completion one at a time, between operations every embedding record's key
\* is the id of a chunk of exactly one stored document
C1_NoOrphanEmbeddings ==
    Quiet =>
        \A c \in DOMAIN embeddingsDB :
            Cardinality({d \in DOMAIN documentsDB : c \in ChunkIdsOf(documentsDB[d])}) = 1

\* a document was deleted and the records of another document are still there
C1_Witness ==
    \E t \in Tasks :
        /\ Finished(t, "delete")
        /\ tasks[t].doc # NoDocument
        /\ DOMAIN embeddingsDB # {}

\* C2: when deleteDocument(d) has completed for a stored document d, none of
\* d's chunk ids is a key of the embedding index and d is not in the
\* document index
C2_DeleteRemovesAll ==
    \A t \in Tasks :
        (Finished(t, "delete") /\ tasks[t].doc # NoDocument) =>
            /\ tasks[t].doc.id \notin DOMAIN documentsDB
            /\ \A i \in DOMAIN Iterate(embeddingsDB) :
                 KeysInOrder(DOMAIN embeddingsDB)[i] \notin ChunkIdsOf(tasks[t].doc)

\* deleteDocument has completed for a document of more than one chunk
C2_Witness ==
    \E t \in Tasks :
        /\ Finished(t, "delete")
        /\ Len(tasks[t].doc.chunks) > 1

\* C3: a search that returns after deleteDocument(d) has completed returns no
\* chunk of d, from the cosine-similarity path or from the lexical fallback
C3_NoDeletedChunkFound ==
    \A t \in Tasks :
        Finished(t, "search") =>
            \A i \in DOMAIN tasks[t].ret : tasks[t].ret[i].id \notin deleted

\* after a deletion the lexical fallback still answers with a chunk
C3_Witness ==
    \E t \in Tasks :
        /\ Finished(t, "search")
        /\ ~SemanticDone(t)
        /\ tasks[t].ret # <<>>
        /\ deleted # {}

\* C4: when clearAllDocuments has completed, getAllDocuments returns the empty
\* sequence and searchSimilarChunks returns the empty sequence for every
\* query, on the semantic path and on the lexical fallback
C4_ClearEmptiesBoth ==
    \A t \in Tasks :
        Finished(t, "clear") =>
            /\ DocumentsNewestFirst(documentsDB) = <<>>
            /\ \A query \in Queries, topK \in 0..MaxTopK, threshold \in Thresholds :
                 /\ \A resp \in CorpusResponses(query) :
                      SemanticResult(embeddingsDB,
                                     generateEmbedding(query, apiKey, resp).value,
                                     topK, threshold) = <<>>
                 /\ \A results \in FuseResults(LexicalCorpus(embeddingsDB), query) :
                      Slice(results, topK) = <<>>

\* clearAllDocuments has completed after documents were stored and none of
\* them was deleted
C4_Witness ==
    \E t \in Tasks :
        /\ Finished(t, "clear")
        /\ issued.chunks = ChunkIds
        /\ deleted = {}

\* C5: when storeDocument(D) has completed, getAllDocuments returns a document
\* with D's id and name, as many chunks as D and the same chunk ids in the
\* same positions
C5_StoreThenList ==
    \A t \in Tasks :
        (Finished(t, "store") /\ ~tasks[t].raised) =>
            LET D    == tasks[t].doc
                list == DocumentsNewestFirst(documentsDB)
            IN  \E k \in DOMAIN list :
                    /\ list[k].id = D.id
                    /\ list[k].name = D.name
                    /\ Len(list[k].chunks) = Len(D.chunks)
                    /\ \A i \in DOMAIN D.chunks : list[k].chunks[i].id = D.chunks[i].id

\* a document of two chunks has been stored
C5_Witness ==
    \E t \in Tasks :
        /\ Finished(t, "store")
        /\ Len(tasks[t].doc.chunks) = 2
        /\ tasks[t].doc.chunks[1].id > tasks[t].doc.chunks[2].id

\* C6: every chunk of every stored document and every embedding record
\* carries an embedding of EMBEDDING_DIMENSIONS entries, whatever the remote
\* service answered
C6_EmbeddingsAlwaysStored ==
    /\ \A d \in DOMAIN documentsDB : \A i \in DOMAIN documentsDB[d].chunks :
         documentsDB[d].chunks[i].embedding.len = EMBEDDING_DIMENSIONS
    /\ \A c \in DOMAIN embeddingsDB :
         embeddingsDB[c].embedding.len = EMBEDDING_DIMENSIONS

\* a stored document has one chunk embedded by the service and one by the
\* local fallback
C6_Witness ==
    \E d \in DOMAIN documentsDB :
        /\ Len(documentsDB[d].chunks) = 2
        /\ documentsDB[d].chunks[1].embedding = ModelVector(documentsDB[d].chunks[1].content)
        /\ documentsDB[d].chunks[2].embedding =
              generateSimpleVector(documentsDB[d].chunks[2].content)
        /\ \A i \in 1..2 : documentsDB[d].chunks[i].id \in DOMAIN embeddingsDB

\* C7: generateEmbedding returns a vector of exactly EMBEDDING_DIMENSIONS
\* entries, from the remote service or from generateSimpleVector
C7_EmbeddingLength ==
    \A t \in Tasks :
        Finished(t, "embed") => tasks[t].qvec.len = EMBEDDING_DIMENSIONS

\* the service answered with an array of another length
C7_Witness ==
    \E t \in Tasks :
        /\ Finished(t, "embed")
        /\ tasks[t].resp.kind = "embedding"
        /\ tasks[t].resp.embedding.len = 1536

\* C8: generateEmbedding never raises; without an API key, or when the call
\* fails, the answer has no data[0].embedding or the embedding has another
\* length, it returns generateSimpleVector of the same text
C8_EmbeddingNeverRaises ==
    \A t \in Tasks :
        Finished(t, "embed") =>
            /\ ~tasks[t].raised
            /\ ( \/ ~apiKey
                 \/ tasks[t].resp.kind # "embedding"
                 \/ tasks[t].resp.embedding.len # EMBEDDING_DIMENSIONS )
               => tasks[t].qvec = generateSimpleVector(tasks[t].query)

\* the request failed and the call returned all the same
C8_Witness ==
    \E t \in Tasks :
        /\ Finished(t, "embed")
        /\ tasks[t].resp.kind = "networkError"
        /\ Len(tasks[t].query) > 0

\* the similarity of a returned chunk to the query of task t
SimilarityTo(t, chunk) == cosineSimilarity(tasks[t].qvec, chunk.embedding)

\* C9: a non-empty result of the semantic path has at most topK chunks, in
\* order of non-increasing cosine similarity, and holds the topK most similar
\* of the retained records
C9_TopKBySimilarity ==
    \A t \in Tasks :
        SemanticDone(t) =>
            LET ret  == tasks[t].ret
                kept == {c \in DOMAIN embeddingsDB :
                           SimCmp(SimilarityTo(t, embeddingsDB[c]), tasks[t].threshold) > 0}
                ids  == {ret[i].id : i \in DOMAIN ret}
            IN  /\ Len(ret) <= tasks[t].topK
                /\ \A i, j \in DOMAIN ret :
                     i < j => /\ ret[i].id # ret[j].id
                              /\ SimCmp(SimilarityTo(t, ret[i]), SimilarityTo(t, ret[j])) >= 0
                /\ ids \subseteq kept
                /\ \A i \in DOMAIN ret :
                     /\ ret[i].embedding = embeddingsDB[ret[i].id].embedding
                     /\ ret[i].similarity = SimilarityTo(t, ret[i])
                /\ Cardinality(ids) =
                     IF Cardinality(kept) < tasks[t].topK
                     THEN Cardinality(kept) ELSE tasks[t].topK
                /\ \A c \in kept \ ids : \A i \in DOMAIN ret :
                     SimCmp(SimilarityTo(t, embeddingsDB[c]), SimilarityTo(t, ret[i])) <= 0

\* more records were retained than topK, and the one cut off is less similar
C9_Witness ==
    \E t \in Tasks :
        /\ SemanticDone(t)
        /\ \E c \in DOMAIN embeddingsDB :
             /\ c \notin {tasks[t].ret[i].id : i \in DOMAIN tasks[t].ret}
             /\ SimCmp(SimilarityTo(t, embeddingsDB[c]), tasks[t].threshold) > 0
             /\ SimCmp(SimilarityTo(t, embeddingsDB[c]),
                       SimilarityTo(t, tasks[t].ret[1])) < 0

\* C10: every chunk the semantic path returns is strictly more similar to the
\* query than threshold; a record exactly as similar as threshold is not
\* returned
C10_StrictThreshold ==
    \A t \in Tasks :
        SemanticDone(t) =>
            \A i \in DOMAIN tasks[t].ret :
                SimCmp(SimilarityTo(t, embeddingsDB[tasks[t].ret[i].id]),
                       tasks[t].threshold) > 0

\* a record of the corpus is exactly as similar to the query as threshold
C10_Witness ==
    \E t \in Tasks :
        /\ SemanticDone(t)
        /\ \E c \in DOMAIN embeddingsDB :
             /\ SimCmp(SimilarityTo(t, embeddingsDB[c]), tasks[t].threshold) = 0
             /\ c \notin {tasks[t].ret[i].id : i \in DOMAIN tasks[t].ret}

\* C11: a search that returns ran fallbackTextSearch exactly when the
\* cosine-similarity path raised or came to an empty sortedChunks; when
\* sortedChunks is non-empty the answer is sortedChunks and fuse.search was
\* never asked, otherwise the answer is the first topK matches of fuse.search
\* in the order fuse.search gave them
C11_FallbackIffNoSemanticResult ==
    \A t \in Tasks :
        (Finished(t, "search") /\ ~tasks[t].raised) =>
            LET self == tasks[t]
                n    == IF self.topK < Len(self.matches)
                        THEN self.topK ELSE Len(self.matches)
            IN  /\ self.lexical <=> (self.caught \/ self.sortedChunks = <<>>)
                /\ ~self.lexical =>
                     /\ self.ret # <<>>
                     /\ self.ret = SemanticResult(embeddingsDB, self.qvec,
                                                  self.topK, self.threshold)
                     /\ self.matches = <<>>
                /\ self.lexical =>
                     /\ self.matches \in
                          FuseResults(LexicalCorpus(embeddingsDB), self.query)
                     /\ Len(self.ret) = n
                     /\ \A i \in 1..n : self.ret[i] = self.matches[i]

\* the cosine-similarity path raised and the fallback answered with the first
\* of two lexical matches
C11_Witness ==
    \E t \in Tasks :
        /\ Finished(t, "search")
        /\ tasks[t].caught
        /\ tasks[t].topK = 1
        /\ Len(tasks[t].matches) = 2
        /\ tasks[t].ret = <<tasks[t].matches[1]>>

\* C12: no step of searchSimilarChunks or fallbackTextSearch changes the
\* document records or the embedding records
C12_SearchIsPureRead ==
    [][(\E t \in Tasks : tasks'[t] # tasks[t] /\ tasks'[t].op = "search")
         => (documentsDB' = documentsDB /\ embeddingsDB' = embeddingsDB)]_vars

\* a search over a corpus of two chunks has returned one of them from the
\* cosine-similarity path
C12_Witness ==
    \E t \in Tasks :
        /\ SemanticDone(t)
        /\ Len(tasks[t].ret) = 1
        /\ Cardinality(DOMAIN embeddingsDB) = 2
        /\ DOMAIN documentsDB # {}

\* C13: searchSimilarChunks never raises
C13_SearchNeverRaises ==
    \A t \in Tasks : Finished(t, "search") => ~tasks[t].raised

\* C14: every chunk chunkText returns is at most maxChunkSize + 1 long, or
\* is one sentence unit longer than maxChunkSize followed by the period
C14_ChunkLengthBounded ==
    \A t \in Tasks :
        Finished(t, "chunk") =>
            LET self  == tasks[t]
                units == Sentences(self.query)
            IN  \A i \in DOMAIN self.ret :
                    \/ Len(self.ret[i]) <= self.maxChunkSize + 1
                    \/ \E u \in DOMAIN units :
                         /\ Len(trim(units[u])) > self.maxChunkSize
                         /\ self.ret[i] = trim(units[u]) \o <<46>>

\* C15: every chunk chunkText returns is more than 10 characters long after
\* trimming, and so is the content of every chunk of a document that
\* processDocument has built
C15_ChunksLongerThanTen ==
    \A t \in Tasks :
        /\ Finished(t, "chunk") =>
              \A i \in DOMAIN tasks[t].ret :
                  Len(trimEnd(trimStart(tasks[t].ret[i]))) > 10
        /\ tasks[t].op = "store" =>
              \A i \in DOMAIN tasks[t].doc.chunks :
                  Len(trimEnd(trimStart(tasks[t].doc.chunks[i].content))) > 10

\* of the two chunks the loop closed, the first is too short and only the
\* second is returned
C15_Witness ==
    \E t \in Tasks :
        /\ Finished(t, "chunk")
        /\ Len(tasks[t].ret) = 1
        /\ LET loop == ChunkLoop(Sentences(tasks[t].query), 1, <<>>, <<>>,
                                 tasks[t].maxChunkSize, tasks[t].overlap)
           IN  /\ Len(loop.chunks) = 1
               /\ Len(loop.chunks[1]) <= 10
               /\ tasks[t].ret[1] = loop.currentChunk \o <<46>>

\* C16: when handleFileUpload has gone through a batch, processFile has been
\* run for every file of it, in order; a file is reported as failing
\* validation exactly when it is above 10MB or of no supported format, and
\* every file whose own processing met no error is stored, with an embedding
\* record for each of its chunks, whatever happened to the other files
C16_BatchIsolatesFailures ==
    upload.pc = "done" =>
        /\ Len(upload.log) = Len(upload.files)
        /\ \A i \in DOMAIN upload.files :
             LET file  == upload.files[i]
                 entry == upload.log[i]
             IN  /\ entry.name = file.name
                 /\ entry.stage = "validate" <=>
                        \/ file.size > 10485760
                        \/ /\ file.type \notin {MimePdf, MimeDocx, MimeTxt}
                           /\ Extension(file.name) \notin {ExtPdf, ExtDocx, ExtTxt}
                 /\ entry.error = "" <=> entry.stage = "done"
                 /\ entry.stage = "done" =>
                        /\ entry.documentId \in DOMAIN documentsDB
                        /\ documentsDB[entry.documentId].name = file.name
                        /\ Len(documentsDB[entry.documentId].chunks) =
                              Len(chunkText(file.content, 1000, 100))
                        /\ ChunkIdsOf(documentsDB[entry.documentId])
                              \subseteq DOMAIN embeddingsDB

\* the first file of a batch failed in storeDocument and the second one is
\* stored
C16_Witness ==
    /\ upload.pc = "done"
    /\ Len(upload.log) = 2
    /\ upload.log[1].stage = "store"
    /\ upload.log[2].stage = "done"
    /\ upload.log[2].documentId \in DOMAIN documentsDB
    /\ DOMAIN embeddingsDB # {}

\* C17: while the file processFile is working on is above 10MB or of no
\* supported format, the only step taken reports validateFile's error for
\* it: no operation is started, no uuid drawn, the clock not read and no
\* record written
C17_RejectedBeforeProcessing ==
    [][(/\ upload.pc = "processFile"
        /\ \/ upload.files[upload.i].size > 10485760
           \/ /\ upload.files[upload.i].type \notin {MimePdf, MimeDocx, MimeTxt}
              /\ Extension(upload.files[upload.i].name)
                    \notin {ExtPdf, ExtDocx, ExtTxt})
         => /\ tasks' = tasks
            /\ issued' = issued
            /\ now' = now
            /\ documentsDB' = documentsDB
            /\ embeddingsDB' = embeddingsDB
            /\ upload'.log =
                 Append(upload.log,
                        [name |-> upload.files[upload.i].name,
                         stage |-> "validate",
                         error |-> IF upload.files[upload.i].size > 10485760
                                   THEN "File size must be less than 10MB"
                                   ELSE "Supported formats: PDF, DOCX, TXT",
                         documentId |-> 0])]_vars

\* a file above 10MB has been rejected after another file of the batch was
\* stored
C17_Witness ==
    /\ Len(upload.log) = 2
    /\ upload.log[1].stage = "done"
    /\ upload.log[2].stage = "validate"
    /\ upload.log[2].error = "File size must be less than 10MB"
    /\ upload.files[2].type = MimeTxt
    /\ DOMAIN documentsDB # {}

\* C18: an operation on the corpus during which a call on a store rejected
\* ends by raising to its caller
C18_StorageErrorsPropagate ==
    \A t \in Tasks :
        ( /\ tasks[t].pc = "done"
          /\ tasks[t].op \in {"getAll", "store", "delete", "clear"}
          /\ tasks[t].failed )
        => tasks[t].raised

\* C19: when storeDocument, deleteDocument or clearAllDocuments has failed
\* on a rejected write, every stored document has an embedding record for
\* each of its chunks and every embedding record belongs to a stored
\* document
C19_NoPartialStateAfterFailure ==
    \A t \in Tasks :
        ( /\ tasks[t].pc = "done"
          /\ tasks[t].op \in {"store", "delete", "clear"}
          /\ tasks[t].raised )
        => /\ \A d \in DOMAIN documentsDB :
                ChunkIdsOf(documentsDB[d]) \subseteq DOMAIN embeddingsDB
           /\ \A c \in DOMAIN embeddingsDB :
                embeddingsDB[c].documentId \in DOMAIN documentsDB

\* the document record of doc is stored and the embedding record of one of
\* its chunks is not
PartlyDeleted(doc) ==
    /\ doc.id \in DOMAIN documentsDB
    /\ \E c \in ChunkIdsOf(doc) : c \notin DOMAIN embeddingsDB

\* C20: whenever searchSimilarChunks, fallbackTextSearch or getAllDocuments
\* of one task reads a store while deleteDocument(d) of another task is
\* between its awaits, d is not partly deleted: it is not the case that d is
\* still listed and an embedding record of d is gone
C20_NoPartialDeletionObserved ==
    [][\A r, w \in Tasks :
         ( /\ tasks[w].op = "delete"
           /\ tasks[w].pc \in {"removeEmbedding", "removeDocument"}
           /\ tasks[r].pc \in {"idle", "fallback"}
           /\ tasks'[r] # tasks[r]
           /\ tasks'[r].op \in {"search", "getAll"} )
         => ~PartlyDeleted(tasks[w].doc)]_vars

\* C21: when storeDocument, deleteDocument and clearAllDocuments tasks are
\* resumed in any order at their awaits, then whenever all of them have
\* finished no embedding record is left whose document record is absent, and
\* when a clearAllDocuments finishes with no other task inside an operation,
\* both stores are empty.
C21_InterleavedWritersLeaveNoOrphan ==
    [][/\ Quiet' =>
            \A c \in DOMAIN embeddingsDB' :
                embeddingsDB'[c].documentId \in DOMAIN documentsDB'
       /\ \A t \in Tasks :
            ( /\ tasks[t].pc = "clearEmbeddings"
              /\ tasks'[t].pc = "done"
              /\ \A u \in Tasks \ {t} : tasks[u].pc \in {"idle", "done"} )
            => DOMAIN documentsDB' = {} /\ DOMAIN embeddingsDB' = {}]_vars

\* C22: at every point of deleteDocument(d), if the document record of d is
\* gone then every embedding record of d's chunks is gone: the embedding
\* records are removed first.
C22_EmbeddingsRemovedBeforeDocument ==
    \A t \in Tasks :
        ( /\ tasks[t].op = "delete"
          /\ tasks[t].doc # NoDocument
          /\ tasks[t].doc.id \notin DOMAIN documentsDB )
        => ChunkIdsOf(tasks[t].doc) \cap DOMAIN embeddingsDB = {}

\* deleteDocument has removed the embedding records of a document of more
\* than one chunk and is about to remove the document record
C22_Witness ==
    \E t \in Tasks :
        /\ tasks[t].op = "delete"
        /\ tasks[t].pc = "removeDocument"
        /\ Len(tasks[t].doc.chunks) > 1
        /\ tasks[t].doc.id \in DOMAIN documentsDB
        /\ ChunkIdsOf(tasks[t].doc) \cap DOMAIN embeddingsDB = {}

\* the vectors generateEmbedding can return for a content
EmbeddingsOf(content) ==
    {generateEmbedding(content, apiKey, resp).value : resp \in CorpusResponses(content)}

\* C23: storeDocument writes no document record and no embedding record
\* before the embedding call of every chunk has returned, and in whatever
\* order the calls return, the vector stored for a chunk, in the document
\* record and in the embedding record, is one computed from that chunk's
\* content.
C23_EmbeddingsJoinedBeforePersist ==
    \A t \in Tasks :
        (tasks[t].op = "store" /\ tasks[t].doc # NoDocument) =>
            LET doc == tasks[t].doc IN
            /\ ( \/ doc.id \in DOMAIN documentsDB
                 \/ ChunkIdsOf(doc) \cap DOMAIN embeddingsDB # {} )
               => DOMAIN tasks[t].emb = DOMAIN doc.chunks
            /\ doc.id \in DOMAIN documentsDB =>
                 \A i \in DOMAIN doc.chunks :
                    /\ documentsDB[doc.id].chunks[i].id = doc.chunks[i].id
                    /\ documentsDB[doc.id].chunks[i].embedding
                          \in EmbeddingsOf(doc.chunks[i].content)
            /\ \A i \in DOMAIN doc.chunks :
                 doc.chunks[i].id \in DOMAIN embeddingsDB =>
                    /\ embeddingsDB[doc.chunks[i].id].content = doc.chunks[i].content
                    /\ embeddingsDB[doc.chunks[i].id].embedding
                          \in EmbeddingsOf(doc.chunks[i].content)

\* the embedding call of the second chunk has returned before that of the
\* first, whose content has other vectors, and nothing is written yet
C23_Witness ==
    \E t \in Tasks :
        /\ tasks[t].op = "store"
        /\ tasks[t].pc = "embed"
        /\ DOMAIN tasks[t].emb = {2}
        /\ Len(tasks[t].doc.chunks) = 2
        /\ EmbeddingsOf(tasks[t].doc.chunks[1].content)
              \cap EmbeddingsOf(tasks[t].doc.chunks[2].content) = {}
        /\ tasks[t].doc.id \notin DOMAIN documentsDB
        /\ ChunkIdsOf(tasks[t].doc) \cap DOMAIN embeddingsDB = {}

\* C24: once the delete button of the sidebar list has taken a document off
\* the list, the context that searchSimilarChunks hands to a later
\* sendMessage holds no chunk of that document.
C24_RemovedDocumentOutOfContext ==
    \A t \in Tasks :
        Finished(t, "search") =>
            \A doc \in page.removed : \A k \in DOMAIN tasks[t].ret :
                tasks[t].ret[k].id \notin ChunkIdsOf(doc)

\* C25: createInstance is executed at most once for documentsDB and at most
\* once for embeddingsDB, also when several operations are suspended in
\* their first call of initializeDatabases.
C25_HandlesConstructedOnce ==
    /\ created.documentsDB <= 1
    /\ created.embeddingsDB <= 1

\* the records the iteration of task t's search retained, in the order the
\* iteration produced them
IteratedBy(t) == RetainedChunks(embeddingsDB, tasks[t].qvec, tasks[t].threshold)

\* C26: in a result of the semantic path, of two records with equal cosine
\* similarity the one the iteration of the embedding index produced first
\* comes first, and a retained record that was cut off at topK was produced
\* later than every returned record of equal similarity.
C26_TiesInIterationOrder ==
    \A t \in Tasks :
        SemanticDone(t) =>
            LET ret == tasks[t].ret
                all == IteratedBy(t)
                ids == {ret[i].id : i \in DOMAIN ret}
                Pos(id) == CHOOSE k \in DOMAIN all : all[k].id = id
            IN  /\ ids \subseteq {all[k].id : k \in DOMAIN all}
                /\ \A i, j \in DOMAIN ret :
                     (i < j /\ SimCmp(ret[i].similarity, ret[j].similarity) = 0)
                     => Pos(ret[i].id) < Pos(ret[j].id)
                /\ \A i \in DOMAIN ret : \A k \in DOMAIN all :
                     ( /\ all[k].id \notin ids
                       /\ SimCmp(all[k].similarity, ret[i].similarity) = 0 )
                     => Pos(ret[i].id) < k

\* two records as similar as each other were retained and topK = 1 cut
\* between them
C26_Witness ==
    \E t \in Tasks :
        /\ SemanticDone(t)
        /\ Len(tasks[t].ret) = 1
        /\ \E k \in DOMAIN IteratedBy(t) :
             /\ IteratedBy(t)[k].id # tasks[t].ret[1].id
             /\ SimCmp(IteratedBy(t)[k].similarity, tasks[t].ret[1].similarity) = 0

\* currentChunk after the first n sentence units of task t's text
BufferAfter(t, n) ==
    ChunkLoop(SubSeq(Sentences(tasks[t].query), 1, n), 1, <<>>, <<>>,
              tasks[t].maxChunkSize, tasks[t].overlap).currentChunk

\* C27: when chunkText closes a chunk because the next unit would overflow
\* maxChunkSize, the next buffer is the last min(overlap/5, wordCount/2)
\* words (whole numbers of words) of the closed chunk, joined by spaces and
\* followed by ". " when there are any, and then the unit.
C27_OverlapSeed ==
    \A t \in Tasks :
        Finished(t, "chunk") =>
            \A i \in DOMAIN Sentences(tasks[t].query) :
                LET closed == BufferAfter(t, i - 1)
                    unit   == trim(Sentences(tasks[t].query)[i])
                    words  == SplitSpaces(closed, 1, <<>>, <<>>)
                    a      == tasks[t].overlap \div 5
                    h      == Len(words) \div 2
                    n      == IF a < h THEN a ELSE h
                    seed   == SubSeq(words, Len(words) - n + 1, Len(words))
                IN  ( /\ Len(closed) > 0
                      /\ Len(closed) + 2 + Len(unit) > tasks[t].maxChunkSize )
                    => BufferAfter(t, i) =
                          IF n = 0 THEN unit
                          ELSE JoinSpaces(seed) \o <<46, 32>> \o unit

\* C28: every file of a batch that validateFile accepts has a format
\* getFileType determines (pdf, docx or txt), and processFile never reports
\* an unsupported file type for it.
C28_AcceptedFilesHaveAFormat ==
    /\ \A i \in DOMAIN upload.files :
         validateFile(upload.files[i]).valid =>
            /\ ~getFileType(upload.files[i]).threw
            /\ getFileType(upload.files[i]).value \in {"pdf", "docx", "txt"}
    /\ \A i \in DOMAIN upload.log :
         /\ upload.log[i].error # "Unsupported file type"
         /\ upload.log[i].stage = "done" =>
              documentsDB[upload.log[i].documentId].type \in {"pdf", "docx", "txt"}

\* a file without a MIME type was accepted for the extension of its name,
\* written in capitals, and stored as a pdf; another was accepted for its
\* MIME type alone
C28_Witness ==
    /\ \E i \in DOMAIN upload.log :
         /\ upload.files[i].type = ""
         /\ Extension(upload.files[i].name) # upload.files[i].name
         /\ upload.log[i].stage = "done"
         /\ documentsDB[upload.log[i].documentId].type = "pdf"
    /\ \E i \in DOMAIN upload.files :
         /\ validateFile(upload.files[i]).valid
         /\ Extension(upload.files[i].name) \notin {ExtPdf, ExtDocx, ExtTxt}

\* the positions of fullText at which str begins
Occurrences(str) ==
    {a \in 1..Len(pdf.fullText) :
        /\ a + Len(str) - 1 <= Len(pdf.fullText)
        /\ SubSeq(pdf.fullText, a, a + Len(str) - 1) = str}

\* the line that marks page p
PageMarker(p) == <<10>> \o PageLabel(p) \o <<10>>

C30_RelayUnmodified ==
    relay.upstream \in {"body", "noBody"} =>
        /\ relay.enqueued = relay.read
        /\ relay.state = "closed" <=> relay.doneSeen

\* C30, amended: for an upstream response that is OK and has a body, the
\* chunks enqueued to the caller are the chunks read, once each and in the
\* order read, and the caller's stream is closed exactly when the upstream
\* stream has reported done, which it does when nothing is left to read (a
\* failing read puts the stream in error and does not close it). An OK
\* response without a body closes the caller's stream at once, nothing read
\* and nothing enqueued.
C30_RelayUnmodifiedGivenBody ==
    /\ relay.upstream = "body" =>
         /\ relay.enqueued = relay.read
         /\ relay.state = "closed" <=> relay.doneSeen
         /\ relay.doneSeen => relay.body = <<>>
         /\ relay.state \in {"open", "closed", "errored"}
    /\ relay.upstream = "noBody" =>
         /\ relay.enqueued = <<>>
         /\ relay.read = <<>>
         /\ ~relay.doneSeen
         /\ relay.state = "closed"

\* an upstream stream of three chunks, two of them different, has been
\* relayed and the caller's stream is closed
C30_Witness ==
    /\ relay.upstream = "body"
    /\ relay.state = "closed"
    /\ Len(relay.enqueued) = 3
    /\ relay.enqueued[1] # relay.enqueued[2]

====
